---- MODULE Spec2Model ----
(***************************************************************************)
(* Transaction journal of nexus_ai (organization/transaction_manager.py): *)
(* an append-only JSONL log of FileTransaction snapshots, the journal's    *)
(* own backup copies, and the files the transactions are about.            *)
(*                                                                         *)
(* Files are regular files only (directories are not modelled); the free-  *)
(* form metadata dict is carried through unchanged by the code and is left *)
(* out of the entries.                                                     *)
(*                                                                         *)
(* Backup manager of nexus_ai (core/backup_system.py): the locations, the  *)
(* records of backup() with their entries and backup files, restore into a *)
(* target directory or to the original paths, and the retention of the     *)
(* records (review of expiring records, cleanup). The type and metadata of *)
(* a record are carried through unchanged and are left out. The restore    *)
(* points and the state file the manager rewrites after every change are   *)
(* part of the state; for concurrent callers, backup, extend_retention and *)
(* the journal's rollback are also given step by step, one thread at a     *)
(* time, with the manager's lock.                                          *)
(***************************************************************************)
EXTENDS Integers, Sequences, FiniteSets, TLC

(* ------------------------------------------------------------------ *)
(* Bounds                                                              *)
(* ------------------------------------------------------------------ *)
MaxTx == 2
MaxLog == 6
MaxEntries == 4
MaxMalformed == 1
DeepTx == 1

(* ------------------------------------------------------------------ *)
(* Values                                                              *)
(* ------------------------------------------------------------------ *)
Paths == {"d1/a.txt", "d2/a.txt", "d1/b.txt"}
None == "None"
NoFile == "nofile"
Truncated == "truncated"
Contents == {"c1", "c2"}
NoTime == -1
NoBackup == <<>>
Ids == 1..MaxTx

PENDING == "PENDING"
IN_PROGRESS == "IN_PROGRESS"
COMPLETED == "COMPLETED"
FAILED == "FAILED"
ROLLED_BACK == "ROLLED_BACK"
TransactionStatus == {PENDING, IN_PROGRESS, COMPLETED, FAILED, ROLLED_BACK}

MOVE == "MOVE"
COPY == "COPY"
RENAME == "RENAME"
DELETE == "DELETE"
CREATE_DIR == "CREATE_DIR"
OperationType == {MOVE, COPY, RENAME, DELETE, CREATE_DIR}

(* The .value of the enum members, as written to the log. *)
StatusValue(s) ==
  CASE s = PENDING -> "pending"
    [] s = IN_PROGRESS -> "in_progress"
    [] s = COMPLETED -> "completed"
    [] s = FAILED -> "failed"
    [] s = ROLLED_BACK -> "rolled_back"

OperationValue(o) ==
  CASE o = MOVE -> "move"
    [] o = COPY -> "copy"
    [] o = RENAME -> "rename"
    [] o = DELETE -> "delete"
    [] o = CREATE_DIR -> "create_dir"

(* datetime.isoformat / datetime.fromisoformat; None is written as null. *)
Null == <<>>
IsoFormat(t) == <<"iso", t>>
FromIsoFormat(s) == s[2]

(* FileTransaction.to_json: one log line. *)
to_json(tx) ==
  [ id |-> tx.id,
    timestamp |-> IsoFormat(tx.timestamp),
    operation |-> OperationValue(tx.operation),
    source_path |-> tx.source_path,
    dest_path |-> tx.dest_path,
    source_hash |-> tx.source_hash,
    source_size |-> tx.source_size,
    backup_path |-> tx.backup_path,
    status |-> StatusValue(tx.status),
    error |-> tx.error,
    completed_at |-> IF tx.completed_at # NoTime THEN IsoFormat(tx.completed_at) ELSE Null ]

(* TransactionStatus(value) and OperationType(value): the member with *)
(* that value; any other value raises ValueError.                     *)
StatusValues == {"pending", "in_progress", "completed", "failed", "rolled_back"}
OperationValues == {"move", "copy", "rename", "delete", "create_dir"}

StatusOf(v) ==
  CASE v = "pending" -> PENDING
    [] v = "in_progress" -> IN_PROGRESS
    [] v = "completed" -> COMPLETED
    [] v = "failed" -> FAILED
    [] v = "rolled_back" -> ROLLED_BACK

OperationOf(v) ==
  CASE v = "move" -> MOVE
    [] v = "copy" -> COPY
    [] v = "rename" -> RENAME
    [] v = "delete" -> DELETE
    [] v = "create_dir" -> CREATE_DIR

(* from_json raises (the line is skipped by the reader) when the enum  *)
(* constructors reject the value.                                      *)
Parses(line) == line.status \in StatusValues /\ line.operation \in OperationValues

from_json(line) ==
  [ id |-> line.id,
    timestamp |-> FromIsoFormat(line.timestamp),
    operation |-> OperationOf(line.operation),
    source_path |-> line.source_path,
    dest_path |-> line.dest_path,
    source_hash |-> line.source_hash,
    source_size |-> line.source_size,
    backup_path |-> line.backup_path,
    status |-> StatusOf(line.status),
    error |-> line.error,
    completed_at |-> IF line.completed_at # Null THEN FromIsoFormat(line.completed_at) ELSE NoTime ]

NoTx == [id |-> 0]

(* Path.stem of the modelled paths. *)
Stem(p) == IF p = "d1/b.txt" THEN "b" ELSE "a"

(* strftime("%Y%m%d_%H%M%S") keeps whole seconds of the clock. *)
TicksPerSecond == 2
Second(t) == t \div TicksPerSecond

(* backup_dir / f"{source.stem}_{timestamp}{source.suffix}" *)
BackupName(p, t) == <<Stem(p), Second(t)>>
BackupNames == {"a", "b"} \X (0..MaxTx)

(* Quick hash and st_size of a file by its content. *)
QuickHash(c) == <<"md5", c>>
NoHash == <<>>
FileSize(c) == IF c = "c1" THEN 100 ELSE IF c = "c2" THEN 200 ELSE 50

(* Outcomes of one filesystem call that may raise: it succeeds, it    *)
(* raises before writing, or it raises after it began to write.       *)
IO == {"ok", "fail_clean", "fail_partial"}

(* What may go wrong in begin_transaction's hash and backup copy. *)
Faults == {"none", "hash", "backup"}

(* ------------------------------------------------------------------ *)
(* Backup system (core/backup_system.py): values                       *)
(* ------------------------------------------------------------------ *)
MaxBackups == 2
MaxClock == 2
MaxDays == 14

(* BackupStatus; PENDING, IN_PROGRESS, COMPLETED and FAILED are the  *)
(* members of the same name above.                                   *)
VERIFIED == "VERIFIED"
EXPIRED == "EXPIRED"
PENDING_REVIEW == "PENDING_REVIEW"
DELETED == "DELETED"
BackupStatus ==
  {PENDING, IN_PROGRESS, COMPLETED, VERIFIED, FAILED, EXPIRED, PENDING_REVIEW, DELETED}

SUCCESS == "SUCCESS"
HASH_MISMATCH == "HASH_MISMATCH"
FILE_MISSING == "FILE_MISSING"
SIZE_MISMATCH == "SIZE_MISMATCH"
CORRUPTION == "CORRUPTION"
VerificationResult == {SUCCESS, HASH_MISMATCH, FILE_MISSING, SIZE_MISMATCH, CORRUPTION}

(* BackupConfig defaults. Times are counted in ticks of the clock. *)
retention_days == 7
alert_before_delete_days == 2
Day == 86400 * TicksPerSecond

BackupConfig(copies, compress, verify, prefer) ==
  [ min_backup_copies |-> copies,
    compress_backups |-> compress,
    verify_after_backup |-> verify,
    prefer_different_drives |-> prefer ]

DefaultConfig == BackupConfig(2, TRUE, TRUE, TRUE)

(* BackupLocation; the path of a location is told by its id. *)
BackupLocation(n, drive, priority, available) ==
  [ id |-> n, drive_letter |-> drive, priority |-> priority, is_available |-> available ]

(* _initialize_locations over the paths of the configuration, given  *)
(* as (drive, exists) pairs: the primary path with priority 1, the   *)
(* secondary paths with priority 2, 3, ...; ids count the locations. *)
InitializeLocations(paths) ==
  [i \in 1..Len(paths) |-> BackupLocation(i - 1, paths[i][1], i, paths[i][2])]

(* D:/NexusFS/backups, E:/NexusFS_Backup, F:/NexusFS_Backup *)
DefaultLocations == InitializeLocations(<< <<"D:", TRUE>>, <<"E:", TRUE>>, <<"F:", TRUE>> >>)

Drives == {"D:", "E:"}

(* Path.name of the modelled paths. *)
Name(p) == IF p = "d1/b.txt" THEN "b.txt" ELSE "a.txt"
Names == {"a.txt", "b.txt"}

(* hashlib sha256 of a file, by its content. *)
Sha256(c) == <<"sha256", c>>

(* gzip of a content and its inverse; gunzip of anything else raises. *)
Gzip(c) ==
  CASE c = "c1" -> "gz(c1)"
    [] c = "c2" -> "gz(c2)"
    [] OTHER -> "gz(other)"

IsGzip(z) == z \in {"gz(c1)", "gz(c2)", "gz(other)"}

Gunzip(z) ==
  CASE z = "gz(c1)" -> "c1"
    [] z = "gz(c2)" -> "c2"
    [] OTHER -> Truncated

(* st_size of a file in a backup directory or under a restore target. *)
StSize(c) == IF IsGzip(c) THEN 60 ELSE FileSize(c)

(* The .value of the members of BackupStatus and VerificationResult,  *)
(* as written to the state file, and the member of a value.           *)
EnumValue(m) ==
  CASE m = PENDING -> "pending"
    [] m = IN_PROGRESS -> "in_progress"
    [] m = COMPLETED -> "completed"
    [] m = VERIFIED -> "verified"
    [] m = FAILED -> "failed"
    [] m = EXPIRED -> "expired"
    [] m = PENDING_REVIEW -> "pending_review"
    [] m = DELETED -> "deleted"
    [] m = SUCCESS -> "success"
    [] m = HASH_MISMATCH -> "hash_mismatch"
    [] m = FILE_MISSING -> "file_missing"
    [] m = SIZE_MISMATCH -> "size_mismatch"
    [] m = CORRUPTION -> "corruption"

EnumMember(v) == CHOOSE m \in BackupStatus \cup VerificationResult : EnumValue(m) = v

(* The entry of one record in the state document (lines 321-352) and  *)
(* the record _load_state builds from it (lines 387-424). A missing   *)
(* verification result is written as null.                            *)
SaveRecord(r) ==
  [r EXCEPT !.status = EnumValue(@),
            !.created_at = IsoFormat(@),
            !.expires_at = IsoFormat(@),
            !.verification_time = IF @ # NoTime THEN IsoFormat(@) ELSE Null,
            !.verification_result = IF @ # None THEN EnumValue(@) ELSE "null",
            !.entries = [n \in 1..Len(@) |-> [@[n] EXCEPT !.backup_time = IsoFormat(@)]]]

LoadRecord(d) ==
  [d EXCEPT !.status = EnumMember(@),
            !.created_at = FromIsoFormat(@),
            !.expires_at = FromIsoFormat(@),
            !.verification_time = IF @ # Null THEN FromIsoFormat(@) ELSE NoTime,
            !.verification_result = IF @ # "null" THEN EnumMember(@) ELSE None,
            !.entries = [n \in 1..Len(@) |-> [@[n] EXCEPT !.backup_time = FromIsoFormat(@)]]]

(* RestorePoint; name, description and auto_created are carried       *)
(* through unchanged and are left out.                                *)
RestorePoint(id, t, record_id) ==
  [id |-> id, created_at |-> t, backup_record_id |-> record_id, is_valid |-> TRUE]

(* The state file: absent, opened for writing and not yet complete,   *)
(* or the document _save_state dumps (lines 319-367).                 *)
NoStateFile == [doc |-> "none", records |-> <<>>, restore_points |-> <<>>]
TruncatedState == [doc |-> "partial", records |-> <<>>, restore_points |-> <<>>]

SaveState(recs, rps) ==
  [ doc |-> "json",
    records |-> [id \in DOMAIN recs |-> SaveRecord(recs[id])],
    restore_points |-> [id \in DOMAIN rps |-> [rps[id] EXCEPT !.created_at = IsoFormat(@)]] ]

(* _load_state into the empty maps of a new manager: an absent file   *)
(* and a document json.load rejects leave them empty.                 *)
LoadState(file) ==
  IF file.doc = "json"
  THEN [records |-> [id \in DOMAIN file.records |-> LoadRecord(file.records[id])],
        restore_points |-> [id \in DOMAIN file.restore_points |->
                              [file.restore_points[id] EXCEPT !.created_at = FromIsoFormat(@)]]]
  ELSE [records |-> <<>>, restore_points |-> <<>>]

(* The threads that call into the manager and the journal. *)
Threads == {1, 2}
NoThread == 0
Idle == [op |-> "idle", at |-> "idle", arg |-> 0, ret |-> "none", tx |-> NoTx,
         record |-> <<>>, state |-> NoStateFile]

(* ------------------------------------------------------------------ *)
(* State                                                               *)
(* ------------------------------------------------------------------ *)
VARIABLES
  fs,          \* the user's files: path -> content or NoFile
  backups,     \* files in backup_dir: backup name -> content or NoFile
  log,         \* the lines of the log file
  now,         \* the clock datetime.now() reads
  nextId,      \* the next fresh uuid
  txobj,       \* the FileTransaction objects callers hold: id -> object or NoTx
  inflight,    \* ids whose begin_transaction has built the object but not yet logged it
  lastCall,    \* the call just made, if it was one that returns a result, and the result
  lastLogged,  \* id -> the object last passed to _log_transaction, or NoTx
  begun        \* id -> what begin_transaction was asked and found: the content of
               \* the source file, create_backup, and the fault it met

VARIABLES
  locations,   \* _locations: the BackupLocation objects, in the order they were added
  config,      \* the BackupConfig of the manager
  store,       \* files in the backup locations: <<location id, record id, name>> -> content
  target,      \* files under the restore target directory: name -> content or NoFile
  records,     \* _records: record id -> BackupRecord
  made,        \* record id -> what the backup() call that stored it found and met
  reviewed,    \* ids of the records that have been in PENDING_REVIEW
  alerts,      \* the record ids the alert callback was called with, in order
  restore_points, \* _restore_points: restore point id -> RestorePoint
  state_file,  \* backup_state.json: absent, cut off, or a complete document
  lock,        \* the thread that holds the manager's _lock, or NoThread
  threads      \* thread -> the call it is in and its position in that call

jvars == <<backups, log, nextId, txobj, inflight, lastLogged, begun>>
tvars == <<lock, threads>>
bvars == <<locations, config, store, target, records, made, reviewed, alerts,
           restore_points, state_file, lock, threads>>

vars == <<fs, backups, log, now, nextId, txobj, inflight, lastCall, lastLogged, begun,
          locations, config, store, target, records, made, reviewed, alerts,
          restore_points, state_file, lock, threads>>

Exists(f, p) == f[p] # NoFile

Begun(content, create_backup, fault) ==
  [content |-> content, create_backup |-> create_backup, fault |-> fault]

Call(name, id, ret) == [name |-> name, id |-> id, ret |-> ret, called |-> <<>>, rolled_back |-> <<>>]
NoCall == Call("none", 0, "none")

(* The state after construction, whatever the files and the           *)
(* configuration: nothing logged, nothing backed up.                  *)
Constructed ==
  /\ backups = [b \in BackupNames |-> NoFile]
  /\ log = <<>>
  /\ now = 0
  /\ nextId = 1
  /\ txobj = [i \in Ids |-> NoTx]
  /\ inflight = {}
  /\ lastCall = NoCall
  /\ lastLogged = [i \in Ids |-> NoTx]
  /\ begun = [i \in Ids |-> Begun(NoFile, FALSE, "none")]
  /\ store = <<>>
  /\ target = [n \in Names |-> NoFile]
  /\ records = <<>>
  /\ made = <<>>
  /\ reviewed = {}
  /\ alerts = <<>>
  /\ restore_points = <<>>
  /\ state_file = NoStateFile
  /\ lock = NoThread
  /\ threads = [t \in Threads |-> Idle]

Init ==
  /\ fs = [p \in Paths |-> IF p = "d1/a.txt" THEN "c1" ELSE IF p = "d2/a.txt" THEN "c2" ELSE NoFile]
  /\ locations = DefaultLocations
  /\ config = DefaultConfig
  /\ Constructed

(* ------------------------------------------------------------------ *)
(* Log replay                                                          *)
(* ------------------------------------------------------------------ *)

(* A replay that keeps the first entry of an id instead of the last. *)
DictSetKeepsFirst(seen, tx) ==
  IF \E i \in 1..Len(seen) : seen[i].id = tx.id THEN seen ELSE Append(seen, tx)

(* seen_ids[tx.id] = tx on a dict kept as the sequence of its values:  *)
(* a new key goes last, an existing key keeps its place.               *)
DictSet(seen, tx) ==
  IF \E i \in 1..Len(seen) : seen[i].id = tx.id
  THEN [i \in 1..Len(seen) |-> IF seen[i].id = tx.id THEN tx ELSE seen[i]]
  ELSE Append(seen, tx)

RECURSIVE ReadLines(_, _)
ReadLines(lines, seen) ==
  IF lines = <<>> THEN seen
  ELSE LET line == Head(lines) IN
       ReadLines(Tail(lines), IF Parses(line) THEN DictSet(seen, from_json(line)) ELSE seen)

(* iter_transactions over the log lg: the values of seen_ids, in order. *)
IterLog(lg) == ReadLines(lg, <<>>)

iter_transactions == IterLog(log)

(* get_transaction over the log lg. *)
GetLog(lg, tx_id) ==
  LET txs == IterLog(lg) IN
  IF \E i \in 1..Len(txs) : txs[i].id = tx_id
  THEN txs[CHOOSE i \in 1..Len(txs) : txs[i].id = tx_id /\ \A j \in 1..(i-1) : txs[j].id # tx_id]
  ELSE NoTx

get_transaction(tx_id) == GetLog(log, tx_id)

(* _log_transaction / _update_transaction: append one line. *)
LogAppend(lg, tx) == Append(lg, to_json(tx))

(* Room for k more lines in the bounded log, keeping room for the     *)
(* calls already begun, and for k more entries of transaction id.     *)
Room(k) == Len(log) + Cardinality(inflight) + k <= MaxLog

EntriesOf(id) == Cardinality({n \in 1..Len(log) : log[n].id = id /\ Parses(log[n])})

RoomFor(id, k) == Room(k) /\ EntriesOf(id) + k <= MaxEntries

(* ------------------------------------------------------------------ *)
(* Filesystem calls                                                    *)
(* ------------------------------------------------------------------ *)

(* shutil.move(src, dst) of a regular file: rename, else copy2 + unlink. *)
(* A failure leaves src in place; a failed copy may leave dst partial.   *)
ShutilMove(f, src, dst, io) ==
  IF ~Exists(f, src) THEN [fs |-> f, raised |-> TRUE]
  ELSE IF io = "ok" THEN
         [fs |-> IF src = dst THEN f ELSE [f EXCEPT ![dst] = f[src], ![src] = NoFile],
          raised |-> FALSE]
  ELSE IF io = "fail_partial" /\ src # dst THEN
         [fs |-> [f EXCEPT ![dst] = Truncated], raised |-> TRUE]
  ELSE [fs |-> f, raised |-> TRUE]

(* shutil.copy2(backup, dst): dst is opened for writing, then filled. *)
ShutilCopyBack(f, bk, name, dst, io) ==
  IF io = "ok" THEN [fs |-> [f EXCEPT ![dst] = bk[name]], raised |-> FALSE]
  ELSE IF io = "fail_partial" THEN [fs |-> [f EXCEPT ![dst] = Truncated], raised |-> TRUE]
  ELSE [fs |-> f, raised |-> TRUE]

(* _compute_hash: None when the file is absent or reading it raises. *)
ComputeHash(f, p, fault) ==
  IF ~Exists(f, p) \/ fault = "hash" THEN NoHash ELSE QuickHash(f[p])

(* A _create_backup that returns the path although the copy failed. *)
CreateBackupIgnoresFailure(bk, f, source, t, fault) ==
  IF ~Exists(f, source) THEN [backups |-> bk, path |-> NoBackup]
  ELSE [backups |-> IF fault # "backup"
                    THEN [bk EXCEPT ![BackupName(source, t)] = f[source]]
                    ELSE bk,
        path |-> BackupName(source, t)]

(* _create_backup: the copy into backup_dir; any exception gives None. *)
CreateBackup(bk, f, source, t, fault) ==
  IF ~Exists(f, source) THEN [backups |-> bk, path |-> NoBackup]
  ELSE IF fault # "backup" THEN
         [backups |-> [bk EXCEPT ![BackupName(source, t)] = f[source]],
          path |-> BackupName(source, t)]
  ELSE [backups |-> bk, path |-> NoBackup]

BackupExists(bk, name) == name # NoBackup /\ bk[name] # NoFile

(* ------------------------------------------------------------------ *)
(* begin_transaction                                                   *)
(* ------------------------------------------------------------------ *)

(* The object begin_transaction builds (lines 239-261). *)
NewTransaction(id, t, operation, source, dest, hash, backup_path) ==
  [ id |-> id,
    timestamp |-> t,
    operation |-> operation,
    source_path |-> source,
    dest_path |-> dest,
    source_hash |-> hash,
    source_size |-> IF Exists(fs, source) THEN FileSize(fs[source]) ELSE 0,
    backup_path |-> backup_path,
    status |-> PENDING,
    error |-> None,
    completed_at |-> NoTime ]

(* begin_transaction finds the source in use and raises OSError. *)
begin_transaction_in_use(source) ==
  /\ nextId <= MaxTx
  /\ Exists(fs, source)
  /\ lastCall' = Call("begin_transaction", 0, "OSError")
  /\ UNCHANGED <<fs, backups, log, now, nextId, txobj, inflight, lastLogged, begun>>
  /\ UNCHANGED bvars

(* begin_transaction up to the construction of the object: hash, size, *)
(* backup copy, fresh id and timestamp.                                *)
begin_transaction(operation, source, dest, create_backup, fault) ==
  /\ nextId <= MaxTx
  /\ Room(1)
  /\ (fault = "backup") => (create_backup /\ Exists(fs, source))
  /\ (fault = "hash") => Exists(fs, source)
  /\ LET b == IF create_backup /\ Exists(fs, source)
              THEN CreateBackup(backups, fs, source, now, fault)
              ELSE [backups |-> backups, path |-> NoBackup]
         tx == NewTransaction(nextId, now, operation, source, dest,
                              ComputeHash(fs, source, fault), b.path)
     IN /\ backups' = b.backups
        /\ txobj' = [txobj EXCEPT ![nextId] = tx]
        /\ inflight' = inflight \cup {nextId}
        /\ begun' = [begun EXCEPT ![nextId] = Begun(fs[source], create_backup, fault)]
        /\ lastCall' = NoCall
  /\ now' = now + 1
  /\ nextId' = nextId + 1
  /\ UNCHANGED <<fs, log, lastLogged>>
  /\ UNCHANGED bvars

(* begin_transaction's _log_transaction(tx) and return (lines 263-265). *)
begin_transaction_log(id) ==
  /\ id \in inflight
  /\ log' = LogAppend(log, txobj[id])
  /\ lastLogged' = [lastLogged EXCEPT ![id] = txobj[id]]
  /\ inflight' = inflight \ {id}
  /\ lastCall' = NoCall
  /\ UNCHANGED <<fs, backups, now, nextId, txobj, begun>>
  /\ UNCHANGED bvars

(* ------------------------------------------------------------------ *)
(* commit, fail                                                        *)
(* ------------------------------------------------------------------ *)
Held(id) == txobj[id] # NoTx /\ id \notin inflight

(* The final destinations a caller reports to commit: a path other    *)
(* than the source and the planned destination of a move or rename.   *)
FinalDests(tx) ==
  IF tx.operation \in {MOVE, RENAME}
  THEN Paths \ {tx.source_path, tx.dest_path}
  ELSE {}

commit(id, dest) ==
  /\ Held(id)
  /\ dest # None => dest \in FinalDests(txobj[id])
  /\ RoomFor(id, 1)
  /\ LET tx == [txobj[id] EXCEPT !.status = COMPLETED,
                                 !.completed_at = now,
                                 !.dest_path = IF dest # None THEN dest ELSE @]
     IN /\ txobj' = [txobj EXCEPT ![id] = tx]
        /\ log' = LogAppend(log, tx)
        /\ lastLogged' = [lastLogged EXCEPT ![id] = tx]
  /\ lastCall' = NoCall
  /\ UNCHANGED <<fs, backups, now, nextId, inflight, begun>>
  /\ UNCHANGED bvars

Errors == {"disk full"}

(* A fail that copies the journal backup back before it appends. *)
FailRestoring(id, error) ==
  /\ Held(id)
  /\ RoomFor(id, 1)
  /\ LET tx == [txobj[id] EXCEPT !.status = FAILED,
                                 !.error = error,
                                 !.completed_at = now]
     IN /\ txobj' = [txobj EXCEPT ![id] = tx]
        /\ log' = LogAppend(log, tx)
        /\ lastLogged' = [lastLogged EXCEPT ![id] = tx]
        /\ fs' = IF BackupExists(backups, tx.backup_path)
                 THEN [fs EXCEPT ![tx.source_path] = backups[tx.backup_path]]
                 ELSE fs
  /\ lastCall' = NoCall
  /\ UNCHANGED <<backups, now, nextId, inflight, begun>>
  /\ UNCHANGED bvars

fail(id, error) ==
  /\ Held(id)
  /\ RoomFor(id, 1)
  /\ LET tx == [txobj[id] EXCEPT !.status = FAILED,
                                 !.error = error,
                                 !.completed_at = now]
     IN /\ txobj' = [txobj EXCEPT ![id] = tx]
        /\ log' = LogAppend(log, tx)
        /\ lastLogged' = [lastLogged EXCEPT ![id] = tx]
  /\ lastCall' = NoCall
  /\ UNCHANGED <<fs, backups, now, nextId, inflight, begun>>
  /\ UNCHANGED bvars

(* ------------------------------------------------------------------ *)
(* execute_move                                                        *)
(* ------------------------------------------------------------------ *)
MoveError == "move failed"

(* execute_move whose begin_transaction raises: nothing is logged. *)
execute_move_in_use(source) ==
  /\ nextId <= MaxTx
  /\ Exists(fs, source)
  /\ lastCall' = Call("execute_move", 0, "OSError")
  /\ UNCHANGED <<fs, backups, log, now, nextId, txobj, inflight, lastLogged, begun>>
  /\ UNCHANGED bvars

(* What the except branch of execute_move does to the files: the      *)
(* restore from the journal backup, whose own failure is only logged. *)
RestoreAfterFailedMove(f, bk, tx, source, rio) ==
  IF BackupExists(bk, tx.backup_path)
  THEN ShutilCopyBack(f, bk, tx.backup_path, source, rio).fs
  ELSE f

(* The error execute_move hands to fail(): str(e) of the move's exception. *)
FailureMessage(moveRaised, restoreRaised) == MoveError

execute_move(source, dest, create_backup, fault, mio, rio) ==
  /\ nextId <= MaxTx
  /\ Room(3)
  /\ (fault = "backup") => (create_backup /\ Exists(fs, source))
  /\ (fault = "hash") => Exists(fs, source)
  /\ (mio # "ok") => Exists(fs, source)
  /\ LET b == IF create_backup /\ Exists(fs, source)
              THEN CreateBackup(backups, fs, source, now, fault)
              ELSE [backups |-> backups, path |-> NoBackup]
         tx0 == NewTransaction(nextId, now, MOVE, source, dest,
                               ComputeHash(fs, source, fault), b.path)
         tx1 == [tx0 EXCEPT !.status = IN_PROGRESS]
         m == ShutilMove(fs, source, dest, mio)
         restoring == m.raised /\ BackupExists(b.backups, tx0.backup_path)
         restoreRaised == restoring /\ rio # "ok"
         tx2 == IF m.raised
                THEN [tx1 EXCEPT !.status = FAILED,
                                 !.error = FailureMessage(TRUE, restoreRaised),
                                 !.completed_at = now + 1]
                ELSE [tx1 EXCEPT !.status = COMPLETED,
                                 !.completed_at = now + 1,
                                 !.dest_path = dest]
     IN /\ (rio # "ok") => restoring
        /\ backups' = b.backups
        /\ fs' = IF m.raised
                 THEN RestoreAfterFailedMove(m.fs, b.backups, tx0, source, rio)
                 ELSE m.fs
        /\ log' = LogAppend(LogAppend(LogAppend(log, tx0), tx1), tx2)
        /\ txobj' = [txobj EXCEPT ![nextId] = tx2]
        /\ lastLogged' = [lastLogged EXCEPT ![nextId] = tx2]
        /\ begun' = [begun EXCEPT ![nextId] = Begun(fs[source], create_backup, fault)]
        /\ lastCall' = Call("execute_move", nextId,
                            IF ~m.raised THEN "completed"
                            ELSE IF restoreRaised THEN "failed, restore raised"
                            ELSE "failed")
  /\ now' = now + 1
  /\ nextId' = nextId + 1
  /\ UNCHANGED inflight
  /\ UNCHANGED bvars

(* ------------------------------------------------------------------ *)
(* rollback                                                            *)
(* ------------------------------------------------------------------ *)

(* A rollback of a move that copies the destination back and leaves it. *)
RollbackFilesCopies(f, bk, tx, io) ==
  IF tx.operation = MOVE /\ tx.dest_path # None /\ Exists(f, tx.dest_path) /\ io = "ok"
  THEN [fs |-> [f EXCEPT ![tx.source_path] = f[tx.dest_path]], raised |-> FALSE, tried |-> TRUE]
  ELSE [fs |-> f, raised |-> FALSE, tried |-> FALSE]

(* The try block of rollback (lines 363-377): the files afterwards,   *)
(* whether a call raised, and whether any restoring call was made.    *)
RollbackFiles(f, bk, tx, io) ==
  IF tx.operation = MOVE THEN
    IF tx.dest_path # None /\ Exists(f, tx.dest_path)
    THEN ShutilMove(f, tx.dest_path, tx.source_path, io) @@ [tried |-> TRUE]
    ELSE IF BackupExists(bk, tx.backup_path)
    THEN ShutilCopyBack(f, bk, tx.backup_path, tx.source_path, io) @@ [tried |-> TRUE]
    ELSE [fs |-> f, raised |-> FALSE, tried |-> FALSE]
  ELSE IF tx.operation = DELETE THEN
    IF BackupExists(bk, tx.backup_path)
    THEN ShutilCopyBack(f, bk, tx.backup_path, tx.source_path, io) @@ [tried |-> TRUE]
    ELSE [fs |-> f, raised |-> FALSE, tried |-> FALSE]
  ELSE [fs |-> f, raised |-> FALSE, tried |-> FALSE]

(* A rollback that checks only that the transaction exists. *)
RollbackUnchecked(st, bk, tx_id, io) ==
  LET tx == GetLog(st.log, tx_id) IN
  IF tx = NoTx THEN st @@ [ret |-> "False", tried |-> FALSE]
  ELSE [fs |-> st.fs,
        log |-> LogAppend(st.log, [tx EXCEPT !.status = ROLLED_BACK]),
        logged |-> [st.logged EXCEPT ![tx_id] = [tx EXCEPT !.status = ROLLED_BACK]],
        ret |-> "True",
        tried |-> FALSE]

(* A rollback that takes Failed transactions too, restoring nothing. *)
RollbackTakesFailed(st, bk, tx_id, io) ==
  LET tx == GetLog(st.log, tx_id) IN
  IF tx = NoTx THEN st @@ [ret |-> "False", tried |-> FALSE]
  ELSE IF tx.status \notin {COMPLETED, FAILED} THEN st @@ [ret |-> "False", tried |-> FALSE]
  ELSE [fs |-> st.fs,
        log |-> LogAppend(st.log, [tx EXCEPT !.status = ROLLED_BACK]),
        logged |-> [st.logged EXCEPT ![tx_id] = [tx EXCEPT !.status = ROLLED_BACK]],
        ret |-> "True",
        tried |-> FALSE]

(* rollback(tx_id) run on st = [fs, log, logged] with backups bk:     *)
(* the state afterwards, the value returned, and whether a restoring  *)
(* filesystem call was made.                                          *)
Rollback(st, bk, tx_id, io) ==
  LET tx == GetLog(st.log, tx_id) IN
  IF tx = NoTx THEN st @@ [ret |-> "False", tried |-> FALSE]
  ELSE IF tx.status # COMPLETED THEN st @@ [ret |-> "False", tried |-> FALSE]
  ELSE LET r == RollbackFiles(st.fs, bk, tx, io)
           rb == [tx EXCEPT !.status = ROLLED_BACK]
       IN IF r.raised
          THEN [fs |-> r.fs, log |-> st.log, logged |-> st.logged,
                ret |-> "False", tried |-> r.tried]
          ELSE [fs |-> r.fs,
                log |-> LogAppend(st.log, rb),
                logged |-> [st.logged EXCEPT ![tx_id] = rb],
                ret |-> "True",
                tried |-> r.tried]

Here == [fs |-> fs, log |-> log, logged |-> lastLogged]

rollback(tx_id, io) ==
  /\ RoomFor(tx_id, 1)
  /\ LET r == Rollback(Here, backups, tx_id, io) IN
     /\ (io # "ok") => r.tried
     /\ fs' = r.fs
     /\ log' = r.log
     /\ lastLogged' = r.logged
     /\ lastCall' = Call("rollback", tx_id, r.ret)
  /\ UNCHANGED <<backups, now, nextId, txobj, inflight, begun>>
  /\ UNCHANGED bvars

(* ------------------------------------------------------------------ *)
(* rollback_range                                                      *)
(* ------------------------------------------------------------------ *)
Reverse(seq) == [i \in 1..Len(seq) |-> seq[Len(seq) + 1 - i]]

(* The filter of the loop body (lines 413-419). *)
Selected(tx, start_time, end_time) ==
  /\ tx.status = COMPLETED
  /\ ~(start_time # NoTime /\ tx.timestamp < start_time)
  /\ ~(end_time # NoTime /\ tx.timestamp > end_time)

(* The loop of rollback_range over the remaining transactions txs:    *)
(* acc carries the state, the ids rollback was called with and the    *)
(* ids it returned True for.                                          *)
RECURSIVE RangeLoop(_, _, _, _, _, _)
RangeLoop(txs, acc, bk, start_time, end_time, ios) ==
  IF txs = <<>> THEN acc
  ELSE LET tx == Head(txs) IN
       IF ~Selected(tx, start_time, end_time)
       THEN RangeLoop(Tail(txs), acc, bk, start_time, end_time, ios)
       ELSE LET r == Rollback(acc.st, bk, tx.id, ios[tx.id]) IN
            RangeLoop(Tail(txs),
                      [st |-> [fs |-> r.fs, log |-> r.log, logged |-> r.logged],
                       called |-> Append(acc.called, tx.id),
                       rolled_back |-> IF r.ret = "True"
                                       THEN Append(acc.rolled_back, tx.id)
                                       ELSE acc.rolled_back],
                      bk, start_time, end_time, ios)

(* The order in which rollback_range visits the transactions (line 412). *)
RangeOrder(txs) == Reverse(txs)

CompletedIds == {i \in Ids : GetLog(log, i) # NoTx /\ GetLog(log, i).status = COMPLETED}

rollback_range(start_time, end_time, hours, ios) ==
  /\ Room(Cardinality(CompletedIds))
  /\ \A i \in CompletedIds : EntriesOf(i) < MaxEntries
  /\ \A i \in Ids : ios[i] # "ok" => i \in CompletedIds
  /\ LET e == IF hours # 0 THEN now ELSE end_time
         s == IF hours # 0 THEN now - hours ELSE start_time
         r == RangeLoop(RangeOrder(iter_transactions),
                        [st |-> Here, called |-> <<>>, rolled_back |-> <<>>],
                        backups, s, e, ios)
     IN /\ fs' = r.st.fs
        /\ log' = r.st.log
        /\ lastLogged' = r.st.logged
        /\ lastCall' = [Call("rollback_range", 0, "returned")
                          EXCEPT !.called = r.called, !.rolled_back = r.rolled_back]
  /\ UNCHANGED <<backups, now, nextId, txobj, inflight, begun>>
  /\ UNCHANGED bvars

(* ------------------------------------------------------------------ *)
(* The callers' own file operations and the world outside              *)
(* ------------------------------------------------------------------ *)

(* The caller of begin_transaction performs the operation itself    *)
(* before it reports to commit or fail: a move or rename to the       *)
(* planned or to another final destination, or a delete.              *)
perform(id, dst) ==
  /\ Held(id)
  /\ txobj[id].status = PENDING
  /\ Exists(fs, txobj[id].source_path)
  /\ IF txobj[id].operation = DELETE
     THEN /\ dst = None
          /\ fs' = [fs EXCEPT ![txobj[id].source_path] = NoFile]
     ELSE /\ dst \in {txobj[id].dest_path} \cup FinalDests(txobj[id])
          /\ fs' = ShutilMove(fs, txobj[id].source_path, dst, "ok").fs
  /\ lastCall' = NoCall
  /\ UNCHANGED <<backups, log, now, nextId, txobj, inflight, lastLogged, begun>>
  /\ UNCHANGED bvars

(* A file is deleted by the caller or by anyone else. *)
external_delete(p) ==
  /\ Exists(fs, p)
  /\ fs' = [fs EXCEPT ![p] = NoFile]
  /\ lastCall' = NoCall
  /\ UNCHANGED <<backups, log, now, nextId, txobj, inflight, lastLogged, begun>>
  /\ UNCHANGED bvars

(* A line that from_json rejects ends up in the log (a damaged or     *)
(* foreign line); it may carry the id of a real transaction.          *)
MalformedLine(id) ==
  [to_json(NewTransaction(id, 0, MOVE, "d1/a.txt", None, NoHash, NoBackup))
     EXCEPT !.status = "comp"]

malformed_line(id) ==
  /\ Room(1)
  /\ log # <<>>
  /\ Cardinality({k \in 1..Len(log) : ~Parses(log[k])}) < MaxMalformed
  /\ log' = Append(log, MalformedLine(id))
  /\ lastCall' = NoCall
  /\ UNCHANGED <<fs, backups, now, nextId, txobj, inflight, lastLogged, begun>>
  /\ UNCHANGED bvars

(* ------------------------------------------------------------------ *)
(* Backup system: locations                                            *)
(* ------------------------------------------------------------------ *)
Range(seq) == {seq[i] : i \in 1..Len(seq)}
Min(a, b) == IF a <= b THEN a ELSE b

(* The slice seq[:k]. *)
Prefix(seq, k) == SubSeq(seq, 1, Min(k, Len(seq)))

(* list.sort(key=priority): stable, ascending. *)
InsertByPriority(sorted, loc) ==
  LET n == Cardinality({i \in 1..Len(sorted) : sorted[i].priority <= loc.priority})
  IN SubSeq(sorted, 1, n) \o <<loc>> \o SubSeq(sorted, n + 1, Len(sorted))

RECURSIVE SortByPriority(_)
SortByPriority(seq) ==
  IF seq = <<>> THEN <<>>
  ELSE InsertByPriority(SortByPriority(SubSeq(seq, 1, Len(seq) - 1)), seq[Len(seq)])

(* A first pass that takes every location, whatever its drive. *)
FirstPerDriveTakesAll(available, drives_seen, diverse) == available

(* The first loop of _get_available_locations (lines 299-304). *)
RECURSIVE FirstPerDrive(_, _, _)
FirstPerDrive(available, drives_seen, diverse) ==
  IF available = <<>> THEN diverse
  ELSE LET loc == Head(available) IN
       IF loc.drive_letter \notin drives_seen
       THEN FirstPerDrive(Tail(available), drives_seen \cup {loc.drive_letter},
                          Append(diverse, loc))
       ELSE FirstPerDrive(Tail(available), drives_seen, diverse)

(* The second loop (lines 306-308). *)
RECURSIVE AddRemaining(_, _)
AddRemaining(available, diverse) ==
  IF available = <<>> THEN diverse
  ELSE AddRemaining(Tail(available),
                    IF Head(available) \notin Range(diverse)
                    THEN Append(diverse, Head(available))
                    ELSE diverse)

IsAvailable(loc) == loc.is_available

get_available_locations(locs, prefer_different_drives) ==
  LET available == SortByPriority(SelectSeq(locs, IsAvailable)) IN
  IF prefer_different_drives
  THEN AddRemaining(available, FirstPerDrive(available, {}, <<>>))
  ELSE available

(* ------------------------------------------------------------------ *)
(* Backup system: backup                                               *)
(* ------------------------------------------------------------------ *)

(* f"bkp_{datetime.now().strftime('%Y%m%d_%H%M%S')}" *)
RecordId(t) == Second(t)

(* source.name + ".gz" *)
GzName(n) == IF n = "a.txt" THEN "a.txt.gz" ELSE "b.txt.gz"

(* backup_dir / source.name, with backup_dir = location.path / record.id *)
BackupPath(loc, record_id, source, compress) ==
  <<loc.id, record_id, IF compress THEN GzName(Name(source)) ELSE Name(source)>>

StoreExists(st, path) == path \in DOMAIN st

StoreWrite(st, path, c) == (path :> c) @@ st

BackupEntry(source, backup_path, original, written, t, is_compressed) ==
  [ source_path |-> source,
    backup_path |-> backup_path,
    original_size |-> FileSize(original),
    backup_size |-> StSize(written),
    hash_original |-> Sha256(original),
    hash_backup |-> Sha256(written),
    backup_time |-> t,
    is_compressed |-> is_compressed ]

(* What a backup() call may meet: at most one copy, that of path     *)
(* number path into location number loc, raises (io says how), and   *)
(* the verification may raise instead of returning.                   *)
Fault(path, loc, io, verify) == [path |-> path, loc |-> loc, io |-> io, verify |-> verify]
NoFault == Fault(0, 0, "ok", "ok")

(* A _backup_file that adds the original size to total_size. *)
BackupFileCountsOriginal(st, f, source, loc, t, cfg, io) ==
  LET path == BackupPath(loc, st.record.id, source, cfg.compress_backups)
      written == IF cfg.compress_backups THEN Gzip(f[source]) ELSE f[source]
  IN IF io = "ok"
     THEN [store |-> StoreWrite(st.store, path, written),
           record |-> [st.record EXCEPT
                         !.entries = Append(@, BackupEntry(source, path, f[source], written,
                                                           t, cfg.compress_backups)),
                         !.total_size = @ + FileSize(f[source])]]
     ELSE st

(* _backup_file on st = [store, record]; when the copy raises, the    *)
(* backup file may have been created already, no entry is appended.   *)
BackupFile(st, f, source, loc, t, cfg, io) ==
  LET path == BackupPath(loc, st.record.id, source, cfg.compress_backups)
      written == IF cfg.compress_backups THEN Gzip(f[source]) ELSE f[source]
  IN IF io = "ok"
     THEN [store |-> StoreWrite(st.store, path, written),
           record |-> [st.record EXCEPT
                         !.entries = Append(@, BackupEntry(source, path, f[source], written,
                                                           t, cfg.compress_backups)),
                         !.total_size = @ + StSize(written)]]
     ELSE IF io = "fail_partial"
     THEN [store |-> StoreWrite(st.store, path, Truncated), record |-> st.record]
     ELSE st

(* A _backup_path that copies into the first location only. *)
BackupPathLoopFirstOnly(st, f, source, locs, n, t, cfg, ios) ==
  IF Len(locs) >= 1 /\ Exists(f, source)
  THEN BackupFile(st, f, source, locs[1], t, cfg, ios[1])
  ELSE st

(* _backup_path: the loop over the locations; an exception of a copy  *)
(* is logged and the loop goes on. A path that is not a file is       *)
(* skipped.                                                           *)
RECURSIVE BackupPathLoop(_, _, _, _, _, _, _, _)
BackupPathLoop(st, f, source, locs, n, t, cfg, ios) ==
  IF n > Len(locs) THEN st
  ELSE BackupPathLoop(IF Exists(f, source)
                      THEN BackupFile(st, f, source, locs[n], t, cfg, ios[n])
                      ELSE st,
                      f, source, locs, n + 1, t, cfg, ios)

(* The loop of backup() over the paths (lines 541-542). *)
RECURSIVE BackupLoop(_, _, _, _, _, _, _, _)
BackupLoop(st, f, paths, n, locs, t, cfg, fault) ==
  IF n > Len(paths) THEN st
  ELSE BackupLoop(BackupPathLoop(st, f, paths[n], locs, 1, t, cfg,
                                 [l \in 1..Len(locs) |->
                                    IF fault.path = n /\ fault.loc = l THEN fault.io ELSE "ok"]),
                  f, paths, n + 1, locs, t, cfg, fault)

(* BackupVerifier.verify_entry against the files in st. *)
verify_entry(st, entry) ==
  IF ~StoreExists(st, entry.backup_path) THEN FILE_MISSING
  ELSE IF StSize(st[entry.backup_path]) # entry.backup_size THEN SIZE_MISMATCH
  ELSE IF Sha256(st[entry.backup_path]) # entry.hash_backup THEN HASH_MISMATCH
  ELSE SUCCESS

(* BackupVerifier.verify_record: (all_success, results). *)
verify_record(st, record) ==
  LET results == [n \in 1..Len(record.entries) |->
                    <<record.entries[n].source_path, verify_entry(st, record.entries[n])>>]
  IN [all_success |-> \A n \in 1..Len(results) : results[n][2] = SUCCESS,
      results |-> results]

VerifyError == "read error"

(* The record backup() builds (lines 528-537). *)
NewRecord(t, paths, selected) ==
  [ id |-> RecordId(t),
    status |-> IN_PROGRESS,
    created_at |-> t,
    expires_at |-> t + retention_days * Day,
    source_paths |-> paths,
    backup_locations |-> [i \in 1..Len(selected) |-> selected[i].id],
    entries |-> <<>>,
    total_size |-> 0,
    verified |-> FALSE,
    verification_time |-> NoTime,
    verification_result |-> None,
    error_message |-> None ]

(* Lines 547-560 on the Completed record: the verification, or the    *)
(* except branch when the verification itself raises.                 *)
VerifyAfterBackup(record, st, t, verify) ==
  IF verify # "ok"
  THEN [record EXCEPT !.status = FAILED, !.error_message = VerifyError]
  ELSE LET v == verify_record(st, record) IN
       [record EXCEPT !.verified = v.all_success,
                      !.verification_time = t,
                      !.verification_result = IF v.all_success THEN SUCCESS ELSE HASH_MISMATCH,
                      !.status = IF v.all_success THEN VERIFIED ELSE @]

(* backup(paths) at time t on the files f and the backup files st:    *)
(* the backup files afterwards and the record returned.               *)
Backup(st, f, t, cfg, locs, paths, fault) ==
  LET selected == Prefix(get_available_locations(locs, cfg.prefer_different_drives),
                         cfg.min_backup_copies)
      copied == BackupLoop([store |-> st, record |-> NewRecord(t, paths, selected)],
                           f, paths, 1, selected, t, cfg, fault)
      completed == [copied.record EXCEPT !.status = COMPLETED]
  IN [store |-> copied.store,
      record |-> IF cfg.verify_after_backup
                 THEN VerifyAfterBackup(completed, copied.store, t, fault.verify)
                 ELSE completed]

(* What the backup() call found and met, kept for the properties. *)
Made(id, paths, f, fault) ==
  [ id |-> id,
    contents |-> [n \in 1..Len(paths) |-> f[paths[n]]],
    raised |-> fault.path # 0,
    verify |-> fault.verify ]

(* self._records[record.id] = record *)
RecordsSet(recs, record) == (record.id :> record) @@ recs

backup(paths, fault) ==
  /\ Len(made) < MaxBackups
  /\ LET selected == Prefix(get_available_locations(locations, config.prefer_different_drives),
                            config.min_backup_copies)
     IN IF fault.path = 0
        THEN fault.loc = 0 /\ fault.io = "ok"
        ELSE /\ fault.path \in 1..Len(paths)
             /\ fault.loc \in 1..Len(selected)
             /\ fault.io # "ok"
             /\ Exists(fs, paths[fault.path])
  /\ (fault.verify # "ok") => config.verify_after_backup
  /\ LET r == Backup(store, fs, now, config, locations, paths, fault) IN
     /\ store' = r.store
     /\ records' = RecordsSet(records, r.record)
     /\ made' = Append(made, Made(r.record.id, paths, fs, fault))
     /\ reviewed' = reviewed \ {r.record.id}
     /\ state_file' = SaveState(RecordsSet(records, r.record), restore_points)
     /\ lastCall' = Call("backup", r.record.id, "returned")
  /\ UNCHANGED <<fs, now, locations, config, target, alerts, restore_points>>
  /\ UNCHANGED tvars
  /\ UNCHANGED jvars

(* The clock moves on by d ticks. *)
pass_time(d) ==
  /\ now + d <= MaxClock
  /\ now' = now + d
  /\ lastCall' = NoCall
  /\ UNCHANGED <<fs, locations, config, store, target, records, made, reviewed, alerts,
                 restore_points, state_file>>
  /\ UNCHANGED tvars
  /\ UNCHANGED jvars

(* ------------------------------------------------------------------ *)
(* Backup system: restore                                              *)
(* ------------------------------------------------------------------ *)

(* The restore target directory callers pass, or None. *)
TargetDir == "T"

(* The files restore writes to, w = [fs, target]: under the target    *)
(* directory by name, or at the original path.                        *)
DestExists(w, entry, target_path) ==
  IF target_path # None
  THEN w.target[Name(entry.source_path)] # NoFile
  ELSE Exists(w.fs, entry.source_path)

DestWrite(w, entry, target_path, c) ==
  IF target_path # None
  THEN [w EXCEPT !.target[Name(entry.source_path)] = c]
  ELSE [w EXCEPT !.fs[entry.source_path] = c]

(* A _restore_entry that copies the backup file as it is. *)
RestoreEntryCopiesCompressed(w, st, entry, target_path, overwrite) ==
  IF ~StoreExists(st, entry.backup_path) THEN w @@ [raised |-> TRUE]
  ELSE IF DestExists(w, entry, target_path) /\ ~overwrite THEN w @@ [raised |-> TRUE]
  ELSE DestWrite(w, entry, target_path, st[entry.backup_path]) @@ [raised |-> FALSE]

(* _restore_entry: raises when the backup file is missing, when the   *)
(* destination exists and overwrite is off, and when the backup file  *)
(* is no gzip file although the entry says so (the destination has    *)
(* been opened for writing by then). A hash mismatch is only logged.  *)
RestoreEntry(w, st, entry, target_path, overwrite) ==
  IF ~StoreExists(st, entry.backup_path) THEN w @@ [raised |-> TRUE]
  ELSE IF DestExists(w, entry, target_path) /\ ~overwrite THEN w @@ [raised |-> TRUE]
  ELSE IF entry.is_compressed
  THEN IF IsGzip(st[entry.backup_path])
       THEN DestWrite(w, entry, target_path, Gunzip(st[entry.backup_path])) @@ [raised |-> FALSE]
       ELSE DestWrite(w, entry, target_path, Truncated) @@ [raised |-> TRUE]
  ELSE DestWrite(w, entry, target_path, st[entry.backup_path]) @@ [raised |-> FALSE]

(* The loop of restore over the entries; the first exception ends it. *)
RECURSIVE RestoreLoop(_, _, _, _, _)
RestoreLoop(w, st, entries, target_path, overwrite) ==
  IF entries = <<>> THEN w @@ [raised |-> FALSE]
  ELSE LET r == RestoreEntry(w, st, Head(entries), target_path, overwrite) IN
       IF r.raised THEN r
       ELSE RestoreLoop([fs |-> r.fs, target |-> r.target], st, Tail(entries),
                        target_path, overwrite)

(* restore(record_id, target_path, overwrite): the files afterwards   *)
(* and the value returned.                                            *)
Restore(w, st, recs, record_id, target_path, overwrite) ==
  IF record_id \notin DOMAIN recs THEN w @@ [ret |-> "False"]
  ELSE IF recs[record_id].status \notin {COMPLETED, VERIFIED} THEN w @@ [ret |-> "False"]
  ELSE LET r == RestoreLoop(w, st, recs[record_id].entries, target_path, overwrite) IN
       [fs |-> r.fs, target |-> r.target, ret |-> IF r.raised THEN "False" ELSE "True"]

UnknownRecord == -2

restore(record_id, target_path, overwrite) ==
  /\ LET r == Restore([fs |-> fs, target |-> target], store, records,
                      record_id, target_path, overwrite)
     IN /\ fs' = r.fs
        /\ target' = r.target
        /\ lastCall' = Call("restore", record_id, r.ret)
                          @@ [target_path |-> target_path, overwrite |-> overwrite]
  /\ UNCHANGED <<now, locations, config, store, records, made, reviewed, alerts,
                 restore_points, state_file>>
  /\ UNCHANGED tvars
  /\ UNCHANGED jvars

(* ------------------------------------------------------------------ *)
(* Backup system: expiry                                               *)
(* ------------------------------------------------------------------ *)

(* self._records.values(): the ids in the order the records were      *)
(* stored, which is the order of their ids.                           *)
RECURSIVE Ascending(_)
Ascending(S) ==
  IF S = {} THEN <<>>
  ELSE LET m == CHOOSE x \in S : \A y \in S : x <= y IN <<m>> \o Ascending(S \ {m})

(* The test of check_expiring_backups (lines 730-731) at time t. *)
Expiring(r, t) ==
  /\ r.status \in {COMPLETED, VERIFIED}
  /\ r.expires_at <= t + alert_before_delete_days * Day

check_expiring_backups ==
  /\ LET IsExpiring(id) == Expiring(records[id], now)
         expiring == SelectSeq(Ascending(DOMAIN records), IsExpiring)
     IN /\ records' = [id \in DOMAIN records |->
                         IF IsExpiring(id)
                         THEN [records[id] EXCEPT !.status = PENDING_REVIEW]
                         ELSE records[id]]
        /\ alerts' = alerts \o expiring
        /\ reviewed' = reviewed \cup Range(expiring)
        /\ state_file' = IF expiring # <<>> THEN SaveState(records', restore_points)
                         ELSE state_file
        /\ lastCall' = Call("check_expiring_backups", 0, "returned") @@ [expiring |-> expiring]
  /\ UNCHANGED <<fs, now, locations, config, store, target, made, restore_points>>
  /\ UNCHANGED tvars
  /\ UNCHANGED jvars

(* A cleanup test that does not skip the records pending review. *)
CleanedAlsoPending(r, t, force) == r.expires_at <= t

(* The records cleanup_expired deletes at time t (lines 763-765). *)
Cleaned(r, t, force) ==
  /\ r.expires_at <= t
  /\ ~(r.status = PENDING_REVIEW /\ ~force)

(* backup_dir = loc.path / record.id of the locations of record r. *)
InBackupDirs(path, r, locs) ==
  /\ path[2] = r.id
  /\ \E i \in 1..Len(locs) : locs[i].id = path[1] /\ path[1] \in Range(r.backup_locations)

cleanup_expired(force) ==
  /\ LET cleaned == {id \in DOMAIN records : Cleaned(records[id], now, force)}
         kept == {path \in DOMAIN store :
                    \A id \in cleaned : ~InBackupDirs(path, records[id], locations)}
     IN /\ records' = [id \in DOMAIN records |->
                         IF id \in cleaned
                         THEN [records[id] EXCEPT !.status = DELETED]
                         ELSE records[id]]
        /\ store' = [path \in kept |-> store[path]]
        /\ state_file' = IF cleaned # {} THEN SaveState(records', restore_points)
                         ELSE state_file
        /\ lastCall' = Call("cleanup_expired", 0, "returned")
                          @@ [force |-> force,
                              cleaned |-> Cardinality(cleaned),
                              pending |-> {id \in cleaned : records[id].status = PENDING_REVIEW}]
  /\ UNCHANGED <<fs, now, locations, config, target, made, reviewed, alerts, restore_points>>
  /\ UNCHANGED tvars
  /\ UNCHANGED jvars

(* An extend_retention that takes a Deleted record back as well. *)
ExtendRetentionRevives(recs, record_id, days) ==
  [recs EXCEPT
     ![record_id].expires_at = @ + days * Day,
     ![record_id].status =
        IF @ \in {PENDING_REVIEW, DELETED}
        THEN IF recs[record_id].verified THEN VERIFIED ELSE COMPLETED
        ELSE @]

(* Lines 790-792 on the records recs, for a record that is there. *)
ExtendRetention(recs, record_id, days) ==
  [recs EXCEPT
     ![record_id].expires_at = @ + days * Day,
     ![record_id].status =
        IF @ = PENDING_REVIEW
        THEN IF recs[record_id].verified THEN VERIFIED ELSE COMPLETED
        ELSE @]

extend_retention(record_id, days) ==
  /\ IF record_id \notin DOMAIN records
     THEN /\ lastCall' = Call("extend_retention", record_id, "False")
          /\ UNCHANGED <<records, state_file>>
     ELSE /\ records[record_id].expires_at + days * Day <= MaxDays * Day
          /\ records' = ExtendRetention(records, record_id, days)
          /\ state_file' = SaveState(records', restore_points)
          /\ lastCall' = Call("extend_retention", record_id, "True")
  /\ UNCHANGED <<fs, now, locations, config, store, target, made, reviewed, alerts,
                 restore_points>>
  /\ UNCHANGED tvars
  /\ UNCHANGED jvars

(* The clock moves on by n days. *)
days_pass(n) ==
  /\ now + n * Day <= MaxDays * Day
  /\ now' = now + n * Day
  /\ lastCall' = NoCall
  /\ UNCHANGED <<fs, locations, config, store, target, records, made, reviewed, alerts,
                 restore_points, state_file>>
  /\ UNCHANGED tvars
  /\ UNCHANGED jvars

(* ------------------------------------------------------------------ *)
(* Backup system: restore points                                       *)
(* ------------------------------------------------------------------ *)

(* f"rp_{datetime.now().strftime('%Y%m%d_%H%M%S')}" *)
RestorePointId(t) == Second(t)

(* create_restore_point: the backup() of the paths, in which the     *)
(* verification may raise, and the restore point for its record.     *)
create_restore_point(paths, fault) ==
  /\ Len(made) < MaxBackups
  /\ fault.path = 0 /\ fault.loc = 0 /\ fault.io = "ok"
  /\ (fault.verify # "ok") => config.verify_after_backup
  /\ LET r == Backup(store, fs, now, config, locations, paths, fault)
         rp == RestorePoint(RestorePointId(now), now, r.record.id)
     IN /\ store' = r.store
        /\ records' = RecordsSet(records, r.record)
        /\ made' = Append(made, Made(r.record.id, paths, fs, fault))
        /\ reviewed' = reviewed \ {r.record.id}
        /\ restore_points' = (rp.id :> rp) @@ restore_points
        /\ state_file' = SaveState(records', restore_points')
        /\ lastCall' = Call("create_restore_point", rp.id, "returned")
  /\ UNCHANGED <<fs, now, locations, config, target, alerts>>
  /\ UNCHANGED tvars
  /\ UNCHANGED jvars

(* list_restore_points: the valid restore points, newest first; the  *)
(* ids of the restore points ascend with their creation time.        *)
list_restore_points ==
  LET valid == {id \in DOMAIN restore_points : restore_points[id].is_valid}
      ids == Reverse(Ascending(valid))
  IN [n \in 1..Len(ids) |-> restore_points[ids[n]]]

(* restore_from_point: restore of the record the point names, with   *)
(* overwrite off; False for an unknown restore point.                 *)
restore_from_point(restore_point_id, target_path) ==
  /\ LET r == IF restore_point_id \in DOMAIN restore_points
              THEN Restore([fs |-> fs, target |-> target], store, records,
                           restore_points[restore_point_id].backup_record_id,
                           target_path, FALSE)
              ELSE [fs |-> fs, target |-> target, ret |-> "False"]
     IN /\ fs' = r.fs
        /\ target' = r.target
        /\ lastCall' = Call("restore_from_point", restore_point_id, r.ret)
  /\ UNCHANGED <<now, locations, config, store, records, made, reviewed, alerts,
                 restore_points, state_file>>
  /\ UNCHANGED tvars
  /\ UNCHANGED jvars

(* ------------------------------------------------------------------ *)
(* Backup system: the calls step by step, for concurrent callers       *)
(* ------------------------------------------------------------------ *)

(* Thread t returns from its call. *)
Return(t, ret) == [threads EXCEPT ![t] = [Idle EXCEPT !.arg = threads[t].arg, !.ret = ret]]

(* backup() up to line 560 in thread t: the copies and the            *)
(* verification, made before the lock is asked for.                   *)
backup_begin(t, paths) ==
  /\ threads[t].at = "idle"
  /\ Len(made) < MaxBackups
  /\ LET r == Backup(store, fs, now, config, locations, paths, NoFault) IN
     /\ store' = r.store
     /\ made' = Append(made, Made(r.record.id, paths, fs, NoFault))
     /\ threads' = [threads EXCEPT ![t] = [Idle EXCEPT !.op = "backup",
                                                       !.at = "acquire",
                                                       !.arg = r.record.id,
                                                       !.record = r.record]]
  /\ lastCall' = NoCall
  /\ UNCHANGED <<fs, now, locations, config, target, records, reviewed, alerts,
                 restore_points, state_file, lock>>
  /\ UNCHANGED jvars

(* with self._lock: thread t waits until the lock is free (line 562). *)
acquire(t) ==
  /\ threads[t].at = "acquire"
  /\ lock = NoThread
  /\ lock' = t
  /\ threads' = [threads EXCEPT ![t].at = "mutate"]
  /\ lastCall' = NoCall
  /\ UNCHANGED <<fs, now, locations, config, store, target, records, made, reviewed, alerts,
                 restore_points, state_file>>
  /\ UNCHANGED jvars

(* extend_retention up to line 788 in thread t: the lookup of the     *)
(* record; no lock is asked for.                                      *)
extend_retention_begin(t, record_id) ==
  /\ threads[t].at = "idle"
  /\ IF record_id \notin DOMAIN records
     THEN /\ threads' = [threads EXCEPT ![t] = [Idle EXCEPT !.arg = record_id, !.ret = "False"]]
          /\ lastCall' = Call("extend_retention", record_id, "False")
     ELSE /\ records[record_id].expires_at + retention_days * Day <= MaxDays * Day
          /\ threads' = [threads EXCEPT ![t] = [Idle EXCEPT !.op = "extend_retention",
                                                            !.at = "mutate",
                                                            !.arg = record_id]]
          /\ lastCall' = NoCall
  /\ UNCHANGED <<fs, now, locations, config, store, target, records, made, reviewed, alerts,
                 restore_points, state_file, lock>>
  /\ UNCHANGED jvars

(* The change of the records map by thread t: line 563 of backup(),   *)
(* lines 790-792 of extend_retention.                                 *)
mutate(t) ==
  /\ threads[t].at = "mutate"
  /\ IF threads[t].op = "backup"
     THEN /\ records' = RecordsSet(records, threads[t].record)
          /\ reviewed' = reviewed \ {threads[t].arg}
     ELSE /\ records' = ExtendRetention(records, threads[t].arg, retention_days)
          /\ UNCHANGED reviewed
  /\ threads' = [threads EXCEPT ![t].at = "save"]
  /\ lastCall' = NoCall
  /\ UNCHANGED <<fs, now, locations, config, store, target, made, alerts,
                 restore_points, state_file, lock>>
  /\ UNCHANGED jvars

(* _save_state in thread t up to line 372: the document is built from *)
(* the maps and the state file is opened with mode "w", which cuts it *)
(* to no bytes.                                                       *)
save_state_open(t) ==
  /\ threads[t].at = "save"
  /\ threads' = [threads EXCEPT ![t].at = "dump",
                                ![t].state = SaveState(records, restore_points)]
  /\ state_file' = TruncatedState
  /\ lastCall' = NoCall
  /\ UNCHANGED <<fs, now, locations, config, store, target, records, made, reviewed, alerts,
                 restore_points, lock>>
  /\ UNCHANGED jvars

(* json.dump and the close of the file (line 373); extend_retention   *)
(* returns after it.                                                  *)
save_state_dump(t) ==
  /\ threads[t].at = "dump"
  /\ state_file' = threads[t].state
  /\ IF threads[t].op = "backup"
     THEN /\ threads' = [threads EXCEPT ![t].at = "release"]
          /\ lastCall' = NoCall
     ELSE /\ threads' = Return(t, "True")
          /\ lastCall' = Call(threads[t].op, threads[t].arg, "True")
  /\ UNCHANGED <<fs, now, locations, config, store, target, records, made, reviewed, alerts,
                 restore_points, lock>>
  /\ UNCHANGED jvars

(* The end of the with block of backup() and its return (line 566). *)
release(t) ==
  /\ threads[t].at = "release"
  /\ lock' = IF lock = t THEN NoThread ELSE lock
  /\ threads' = Return(t, "returned")
  /\ lastCall' = Call("backup", threads[t].arg, "returned")
  /\ UNCHANGED <<fs, now, locations, config, store, target, records, made, reviewed, alerts,
                 restore_points, state_file>>
  /\ UNCHANGED jvars

(* The process ends at any point and a new manager is constructed:    *)
(* its maps are what _load_state reads from the state file.           *)
restart ==
  /\ threads' = [t \in Threads |-> Idle]
  /\ lock' = NoThread
  /\ records' = LoadState(state_file).records
  /\ restore_points' = LoadState(state_file).restore_points
  /\ lastCall' = Call("restart", 0, "returned")
  /\ UNCHANGED <<fs, now, locations, config, store, target, made, reviewed, alerts, state_file>>
  /\ UNCHANGED jvars

(* ------------------------------------------------------------------ *)
(* rollback step by step, for concurrent callers                       *)
(* ------------------------------------------------------------------ *)

(* rollback up to line 361 in thread t: the transaction is read from  *)
(* the log and its status is tested.                                  *)
rollback_begin(t, tx_id) ==
  /\ threads[t].at = "idle"
  /\ RoomFor(tx_id, Cardinality(Threads))
  /\ LET tx == get_transaction(tx_id) IN
     IF tx = NoTx \/ tx.status # COMPLETED
     THEN /\ threads' = [threads EXCEPT ![t] = [Idle EXCEPT !.arg = tx_id, !.ret = "False"]]
          /\ lastCall' = Call("rollback", tx_id, "False")
     ELSE /\ threads' = [threads EXCEPT ![t] = [Idle EXCEPT !.op = "rollback",
                                                            !.at = "restore",
                                                            !.arg = tx_id,
                                                            !.tx = tx]]
          /\ lastCall' = NoCall
  /\ UNCHANGED <<fs, backups, log, now, nextId, txobj, inflight, lastLogged, begun>>
  /\ UNCHANGED <<locations, config, store, target, records, made, reviewed, alerts,
                 restore_points, state_file, lock>>

(* The try block up to line 376 in thread t: the files are put back. *)
rollback_restore(t) ==
  /\ threads[t].at = "restore"
  /\ LET r == RollbackFiles(fs, backups, threads[t].tx, "ok") IN
     /\ fs' = r.fs
     /\ IF r.raised
        THEN /\ threads' = Return(t, "False")
             /\ lastCall' = Call("rollback", threads[t].arg, "False")
        ELSE /\ threads' = [threads EXCEPT ![t].at = "log"]
             /\ lastCall' = NoCall
  /\ UNCHANGED <<backups, log, now, nextId, txobj, inflight, lastLogged, begun>>
  /\ UNCHANGED <<locations, config, store, target, records, made, reviewed, alerts,
                 restore_points, state_file, lock>>

(* Lines 378-381 in thread t: the status is set on the thread's own   *)
(* object, the object is appended to the log, True is returned.       *)
rollback_log(t) ==
  /\ threads[t].at = "log"
  /\ LET rb == [threads[t].tx EXCEPT !.status = ROLLED_BACK] IN
     /\ log' = LogAppend(log, rb)
     /\ lastLogged' = [lastLogged EXCEPT ![rb.id] = rb]
  /\ threads' = Return(t, "True")
  /\ lastCall' = Call("rollback", threads[t].arg, "True")
  /\ UNCHANGED <<fs, backups, now, nextId, txobj, inflight, begun>>
  /\ UNCHANGED <<locations, config, store, target, records, made, reviewed, alerts,
                 restore_points, state_file, lock>>

(* ------------------------------------------------------------------ *)
(* Specification                                                       *)
(* ------------------------------------------------------------------ *)
(* The windows rollback_range is called with: everything, from a    *)
(* start, up to an end, and the last hour.                           *)
Windows ==
  { [start_time |-> NoTime, end_time |-> NoTime, hours |-> 0],
    [start_time |-> 1, end_time |-> NoTime, hours |-> 0],
    [start_time |-> NoTime, end_time |-> 0, hours |-> 0],
    [start_time |-> NoTime, end_time |-> NoTime, hours |-> 1] }

(* The operations callers begin. *)
Plans ==
  { [operation |-> MOVE, source |-> "d1/a.txt", dest |-> "d1/b.txt"],
    [operation |-> MOVE, source |-> "d1/b.txt", dest |-> "d2/a.txt"],
    [operation |-> RENAME, source |-> "d1/a.txt", dest |-> "d1/b.txt"],
    [operation |-> DELETE, source |-> "d1/a.txt", dest |-> None],
    [operation |-> DELETE, source |-> "d2/a.txt", dest |-> None] }

MovePlans == {pl \in Plans : pl.operation = MOVE}

(* One transaction at a time, with every fault of the filesystem. *)
Next ==
  \/ \E source \in Paths : begin_transaction_in_use(source)
  \/ \E pl \in Plans, create_backup \in BOOLEAN, fault \in Faults :
       /\ nextId <= DeepTx
       /\ begin_transaction(pl.operation, pl.source, pl.dest, create_backup, fault)
  \/ \E id \in Ids : begin_transaction_log(id)
  \/ \E id \in Ids, dest \in Paths \cup {None} : commit(id, dest)
  \/ \E id \in Ids, error \in Errors : fail(id, error)
  \/ \E source \in Paths : execute_move_in_use(source)
  \/ \E pl \in MovePlans, create_backup \in BOOLEAN, fault \in Faults,
        mio \in {"ok", "fail_clean"}, rio \in IO :
       /\ nextId <= DeepTx
       /\ execute_move(pl.source, pl.dest, create_backup, fault, mio, rio)
  \/ \E tx_id \in Ids, io \in IO : rollback(tx_id, io)
  \/ \E id \in Ids, dst \in Paths \cup {None} : perform(id, dst)
  \/ \E p \in Paths : external_delete(p)

Spec == Init /\ [][Next]_vars

(* Several transactions, begun concurrently, on a working filesystem. *)
NextJournal ==
  \/ \E pl \in MovePlans :
       begin_transaction(pl.operation, pl.source, pl.dest, TRUE, "none")
  \/ \E id \in Ids : begin_transaction_log(id)
  \/ \E id \in Ids : commit(id, None)
  \/ \E id \in Ids, error \in Errors : fail(id, error)
  \/ \E tx_id \in Ids : rollback(tx_id, "ok")
  \/ \E w \in Windows :
       rollback_range(w.start_time, w.end_time, w.hours, [i \in Ids |-> "ok"])
  \/ \E id \in Ids : perform(id, txobj[id].dest_path)
  \/ malformed_line(1)

SpecJournal == Init /\ [][NextJournal]_vars

(* Two callers that begin and carry out their operations around the   *)
(* same time, each asking for a journal backup.                       *)
NextNames ==
  \/ \E pl \in Plans :
       begin_transaction(pl.operation, pl.source, pl.dest, TRUE, "none")
  \/ \E id \in Ids : begin_transaction_log(id)
  \/ \E id \in Ids : commit(id, None)
  \/ \E id \in Ids :
       perform(id, IF txobj[id] # NoTx THEN txobj[id].dest_path ELSE None)

SpecNames == Init /\ [][NextNames]_vars

(* The location selection on its own: every setup of three locations *)
(* on two drives, available or not.                                   *)
LocationSetups ==
  { InitializeLocations(<< <<d1, a1>>, <<d2, a2>>, <<d3, a3>> >>) :
      d1 \in Drives, d2 \in Drives, d3 \in Drives,
      a1 \in BOOLEAN, a2 \in BOOLEAN, a3 \in BOOLEAN }

InitLocations ==
  /\ fs = [p \in Paths |-> IF p = "d2/a.txt" THEN "c2" ELSE "c1"]
  /\ locations \in LocationSetups
  /\ config \in {BackupConfig(copies, FALSE, FALSE, prefer) :
                    copies \in 1..2, prefer \in BOOLEAN}
  /\ Constructed

(* The sets of paths callers hand to backup(). *)
BackupSets == { <<"d1/a.txt">>, <<"d1/a.txt", "d1/b.txt">>, <<"d1/a.txt", "d2/a.txt">> }

NextLocations ==
  \/ \E paths \in BackupSets : backup(paths, NoFault)
  \/ pass_time(TicksPerSecond)

SpecLocations == InitLocations /\ [][NextLocations]_vars

(* Backup and restore with two locations on two drives, under every  *)
(* configuration of copies, compression and verification.             *)
BackupFaults ==
  {NoFault, Fault(0, 0, "ok", "fail"), Fault(2, 1, "fail_partial", "ok")}
    \cup {Fault(path, loc, "fail_clean", "ok") : path \in 1..2, loc \in 1..2}

(* The ways callers restore: into the target directory, with and     *)
(* without overwrite, and to the original paths without overwrite.   *)
RestoreCalls ==
  { [target_path |-> TargetDir, overwrite |-> FALSE],
    [target_path |-> TargetDir, overwrite |-> TRUE],
    [target_path |-> None, overwrite |-> FALSE] }

InitBackup ==
  /\ fs = [p \in Paths |-> IF p = "d1/a.txt" THEN "c1" ELSE "c2"]
  /\ locations = InitializeLocations(<< <<"D:", TRUE>>, <<"E:", TRUE>> >>)
  /\ config \in {BackupConfig(copies, compress, verify, TRUE) :
                    copies \in 1..2, compress \in BOOLEAN, verify \in BOOLEAN}
  /\ Constructed

NextBackup ==
  \/ \E paths \in BackupSets, fault \in BackupFaults : backup(paths, fault)
  \/ \E record_id \in DOMAIN records \cup {UnknownRecord}, c \in RestoreCalls :
       restore(record_id, c.target_path, c.overwrite)
  \/ pass_time(TicksPerSecond)

SpecBackup == InitBackup /\ [][NextBackup]_vars

(* Retention: backups of one file into two locations, some of them   *)
(* failing in the verification, the review of expiring records, the  *)
(* cleanup and restores, over two weeks.                              *)
InitExpiry ==
  /\ fs = [p \in Paths |-> IF p = "d1/a.txt" THEN "c1" ELSE "c2"]
  /\ locations = InitializeLocations(<< <<"D:", TRUE>>, <<"E:", TRUE>> >>)
  /\ config \in {BackupConfig(2, FALSE, verify, TRUE) : verify \in BOOLEAN}
  /\ Constructed

NextExpiry ==
  \/ \E fault \in {NoFault, Fault(0, 0, "ok", "fail")} : backup(<<"d1/a.txt">>, fault)
  \/ \E n \in {alert_before_delete_days, retention_days - alert_before_delete_days} :
       days_pass(n)
  \/ check_expiring_backups
  \/ \E force \in BOOLEAN : cleanup_expired(force)
  \/ \E record_id \in DOMAIN records \cup {UnknownRecord} :
       extend_retention(record_id, retention_days)
  \/ \E record_id \in DOMAIN records : restore(record_id, TargetDir, TRUE)

SpecExpiry == InitExpiry /\ [][NextExpiry]_vars

(* Restore points under the same retention: their creation, some     *)
(* over a backup that fails, the cleanup of their records and the    *)
(* restore from them.                                                 *)
NextPoints ==
  \/ \E fault \in {NoFault, Fault(0, 0, "ok", "fail")} :
       create_restore_point(<<"d1/a.txt">>, fault)
  \/ \E n \in {alert_before_delete_days, retention_days - alert_before_delete_days} :
       days_pass(n)
  \/ check_expiring_backups
  \/ \E force \in BOOLEAN : cleanup_expired(force)
  \/ \E restore_point_id \in DOMAIN restore_points \cup {UnknownRecord} :
       restore_from_point(restore_point_id, TargetDir)

SpecPoints == InitExpiry /\ [][NextPoints]_vars

(* Two threads in the backup manager: backups of one file into one   *)
(* location and retention extensions, step by step, and the end of   *)
(* the process at any point.                                          *)
InitThreads ==
  /\ fs = [p \in Paths |-> IF p = "d1/a.txt" THEN "c1" ELSE "c2"]
  /\ locations = InitializeLocations(<< <<"D:", TRUE>>, <<"E:", TRUE>> >>)
  /\ config = BackupConfig(1, FALSE, TRUE, TRUE)
  /\ Constructed

NextThreads ==
  \/ \E t \in Threads : backup_begin(t, <<"d1/a.txt">>)
  \/ \E t \in Threads : acquire(t)
  \/ \E t \in Threads, record_id \in DOMAIN records \cup {UnknownRecord} :
       extend_retention_begin(t, record_id)
  \/ \E t \in Threads : mutate(t)
  \/ \E t \in Threads : save_state_open(t)
  \/ \E t \in Threads : save_state_dump(t)
  \/ \E t \in Threads : release(t)
  \/ restart
  \/ pass_time(TicksPerSecond)

SpecThreads == InitThreads /\ [][NextThreads]_vars

(* One transaction and two threads that roll it back, step by step. *)
NextRace ==
  \/ \E pl \in Plans :
       /\ nextId <= DeepTx
       /\ begin_transaction(pl.operation, pl.source, pl.dest, TRUE, "none")
  \/ \E id \in Ids : begin_transaction_log(id)
  \/ \E id \in Ids :
       perform(id, IF txobj[id] # NoTx THEN txobj[id].dest_path ELSE None)
  \/ \E id \in Ids : commit(id, None)
  \/ \E t \in Threads, tx_id \in Ids : rollback_begin(t, tx_id)
  \/ \E t \in Threads : rollback_restore(t)
  \/ \E t \in Threads : rollback_log(t)

SpecRace == Init /\ [][NextRace]_vars

(* ------------------------------------------------------------------ *)
(* Properties                                                          *)
(* ------------------------------------------------------------------ *)

(* The statuses of the entries of transaction id, in log order. *)
EntryOf(id, line) == Parses(line) /\ line.id = id
StatusesOf(id) ==
  LET Mine(line) == EntryOf(id, line)
      mine == SelectSeq(log, Mine)
  IN [n \in 1..Len(mine) |-> StatusOf(mine[n].status)]

LastLine == log[Len(log)]

(* C1: get_transaction(T) is the entry last appended for T (nothing   *)
(* when none was), and iter_transactions yields one entry per id that *)
(* has entries, that last one, whatever malformed lines lie between.  *)
C1_JournalReplay ==
  /\ \A id \in Ids : get_transaction(id) = lastLogged[id]
  /\ Len(iter_transactions) = Cardinality({id \in Ids : lastLogged[id] # NoTx})
  /\ \A n \in 1..Len(iter_transactions) :
       /\ iter_transactions[n].id \in Ids
       /\ iter_transactions[n] = lastLogged[iter_transactions[n].id]

(* C1 witness: two transactions with entries, one of them rolled back *)
(* after a malformed line carrying its id was written.                *)
C1_Witness ==
  /\ Len(iter_transactions) = 2
  /\ \E n \in 1..Len(log) : ~Parses(log[n]) /\ n < Len(log)
  /\ \E id \in Ids : Len(StatusesOf(id)) >= 3 /\ get_transaction(id).status = ROLLED_BACK

(* C2 as claimed: every entry's status is a permitted successor of    *)
(* the id's previous entry. The claim is read in the caller's favour: *)
(* InProgress may be left out (Pending -> Completed | Failed) and a   *)
(* terminal status may be appended again (a retried commit or fail).  *)
Permitted ==
  { <<PENDING, IN_PROGRESS>>, <<PENDING, COMPLETED>>, <<PENDING, FAILED>>,
    <<IN_PROGRESS, COMPLETED>>, <<IN_PROGRESS, FAILED>>, <<COMPLETED, ROLLED_BACK>>,
    <<COMPLETED, COMPLETED>>, <<FAILED, FAILED>> }

MovedAndCommitted(id) ==
  LET tx == get_transaction(id) IN
  /\ tx # NoTx
  /\ tx.status = COMPLETED
  /\ tx.operation = MOVE
  /\ tx.dest_path # None
  /\ tx.dest_path # tx.source_path
  /\ begun[id].content \in Contents
  /\ fs[tx.dest_path] = begun[id].content

C3_MoveRoundTrip ==
  [][\A id \in Ids :
       (MovedAndCommitted(id) /\ rollback(id, "ok")) =>
         /\ lastCall'.ret = "True"
         /\ fs'[get_transaction(id).source_path] = begun[id].content
         /\ fs'[get_transaction(id).dest_path] = NoFile]_vars

(* C3 witness: a Move committed with a final destination other than   *)
(* the planned one has been rolled back and the file is back.         *)
C3_Witness ==
  /\ lastCall.name = "rollback"
  /\ lastCall.ret = "True"
  /\ LET tx == get_transaction(lastCall.id) IN
     /\ tx.operation = MOVE
     /\ tx.dest_path = "d2/a.txt"
     /\ tx.source_path = "d1/a.txt"
     /\ fs[tx.source_path] = "c1"
     /\ begun[lastCall.id].content = "c1"
     /\ fs[tx.dest_path] = NoFile

(* C4: rollback_range calls rollback in strictly decreasing order of  *)
(* the transactions' timestamps.                                      *)
C4_NewestFirst ==
  lastCall.name = "rollback_range" =>
    \A m \in 1..Len(lastCall.called), n \in 1..Len(lastCall.called) :
      m < n => txobj[lastCall.called[m]].timestamp > txobj[lastCall.called[n]].timestamp

(* C5: a rollback of a Completed Move or Delete that returned True    *)
(* leaves a file at the original source path.                         *)
C5_TrueMeansRestored ==
  (lastCall.name = "rollback" /\ lastCall.ret = "True") =>
    LET tx == get_transaction(lastCall.id) IN
    tx.operation \in {MOVE, DELETE} => Exists(fs, tx.source_path)

DeletedWithBackup(id) ==
  /\ Held(id)
  /\ txobj[id].operation = DELETE
  /\ txobj[id].status = PENDING
  /\ BackupExists(backups, txobj[id].backup_path)
  /\ ~Exists(fs, txobj[id].source_path)

ReportsRestoreFailure(error) == error # None /\ error # MoveError

C8_NeverSilent ==
  (lastCall.name = "execute_move" /\ lastCall.ret \in {"failed", "failed, restore raised"}) =>
    LET tx == get_transaction(lastCall.id) IN
    begun[lastCall.id].content \in Contents =>
      \/ fs[tx.source_path] = begun[lastCall.id].content
      \/ ReportsRestoreFailure(tx.error)

(* C9: rollback of an unknown id, or of a transaction whose latest    *)
(* entry is not Completed, returns False, appends nothing and touches *)
(* no file.                                                           *)
C9_RollbackRefuses ==
  [][\A id \in Ids, io \in IO :
       (/\ rollback(id, io)
        /\ (get_transaction(id) = NoTx \/ get_transaction(id).status # COMPLETED))
       => /\ lastCall'.ret = "False"
          /\ log' = log
          /\ fs' = fs
          /\ backups' = backups]_vars

(* C9 witness: a second rollback of a rolled-back transaction was     *)
(* refused.                                                           *)
C9_Witness ==
  /\ lastCall.name = "rollback"
  /\ lastCall.ret = "False"
  /\ get_transaction(lastCall.id) # NoTx
  /\ get_transaction(lastCall.id).status = ROLLED_BACK

(* C10: a rollback of a Completed Rename, whose file is at the       *)
(* recorded destination or is gone with a journal backup left, that   *)
(* returned True leaves the file at the source path and not at the    *)
(* destination path.                                                  *)
RenamedAndCommitted(id) ==
  LET tx == get_transaction(id) IN
  /\ tx # NoTx
  /\ tx.status = COMPLETED
  /\ tx.operation = RENAME
  /\ tx.dest_path # None
  /\ tx.dest_path # tx.source_path
  /\ begun[id].content \in Contents
  /\ ~Exists(fs, tx.source_path)
  /\ \/ fs[tx.dest_path] = begun[id].content
     \/ ~Exists(fs, tx.dest_path) /\ BackupExists(backups, tx.backup_path)

C10_RenameRestored ==
  [][\A id \in Ids, io \in IO :
       (RenamedAndCommitted(id) /\ rollback(id, io) /\ lastCall'.ret = "True") =>
         /\ Exists(fs', get_transaction(id).source_path)
         /\ ~Exists(fs', get_transaction(id).dest_path)]_vars

(* C11: no two transactions record the same backup_path, and the     *)
(* backup file of every Completed transaction holds the content its  *)
(* own source had when the transaction began.                        *)
C11_BackupsDistinct ==
  /\ \A i, j \in Ids :
       (/\ i # j
        /\ txobj[i] # NoTx /\ txobj[j] # NoTx
        /\ txobj[i].backup_path # NoBackup /\ txobj[j].backup_path # NoBackup)
       => txobj[i].backup_path # txobj[j].backup_path
  /\ \A i \in Ids :
       (/\ lastLogged[i] # NoTx
        /\ lastLogged[i].status = COMPLETED
        /\ lastLogged[i].backup_path # NoBackup)
       => backups[lastLogged[i].backup_path] = begun[i].content

(* The record the backup() call just made returned, and what the     *)
(* call found and met.                                               *)
Returned == records[lastCall.id]
LastMade == made[Len(made)]

AvailableLocations == {i \in 1..Len(locations) : locations[i].is_available}

(* The entries of record r for source path p, and the locations      *)
(* their backup files are in.                                         *)
EntriesFor(r, p) == {n \in 1..Len(r.entries) : r.entries[n].source_path = p}
LocationsOf(r, p) == {r.entries[n].backup_path[1] : n \in EntriesFor(r, p)}

(* C12: with min_backup_copies = 2 and two available locations on    *)
(* distinct drives, a backup() whose copies all succeed returns a    *)
(* record with exactly two entries for every source file, one in     *)
(* each of the two locations, and backup_locations lists exactly     *)
(* those two location ids.                                           *)
C12_TwoCopies ==
  (/\ lastCall.name = "backup"
   /\ config.min_backup_copies = 2
   /\ Cardinality(AvailableLocations) = 2
   /\ Cardinality({locations[i].drive_letter : i \in AvailableLocations}) = 2
   /\ ~LastMade.raised)
  => LET both == {locations[i].id : i \in AvailableLocations} IN
     /\ Len(Returned.backup_locations) = 2
     /\ Range(Returned.backup_locations) = both
     /\ \A n \in 1..Len(Returned.source_paths) :
          LastMade.contents[n] # NoFile =>
            /\ Cardinality(EntriesFor(Returned, Returned.source_paths[n])) = 2
            /\ LocationsOf(Returned, Returned.source_paths[n]) = both
     /\ Len(Returned.entries) = 2 * Len(Returned.source_paths)

(* C12 witness: such a backup of two files has returned its record   *)
(* of four entries.                                                  *)
C12_Witness ==
  /\ lastCall.name = "backup"
  /\ config.min_backup_copies = 2
  /\ Cardinality(AvailableLocations) = 2
  /\ ~LastMade.raised
  /\ Len(Returned.source_paths) = 2
  /\ Len(Returned.entries) = 4
  /\ \A n \in 1..4 : StoreExists(store, Returned.entries[n].backup_path)

(* The location with id n, and the drives of the available ones. *)
LocationOfId(n) == locations[CHOOSE i \in 1..Len(locations) : locations[i].id = n]
AvailableDrives == {locations[i].drive_letter : i \in AvailableLocations}

(* C13: _get_available_locations returns every available location    *)
(* exactly once and no other; with prefer_different_drives it starts  *)
(* with the best-priority location of each drive, in priority order,  *)
(* so a backup with min_backup_copies = k on at least k available     *)
(* drives uses locations on pairwise distinct drives.                 *)
C13_LocationSelection ==
  /\ \A prefer \in BOOLEAN :
       LET got == get_available_locations(locations, prefer) IN
       /\ Len(got) = Cardinality(AvailableLocations)
       /\ Range(got) = {locations[i] : i \in AvailableLocations}
  /\ LET got == get_available_locations(locations, TRUE)
         d == Cardinality(AvailableDrives)
     IN /\ \A i, j \in 1..d : i # j => got[i].drive_letter # got[j].drive_letter
        /\ \A i, j \in 1..d : i < j => got[i].priority <= got[j].priority
        /\ \A i \in 1..d : \A n \in AvailableLocations :
             locations[n].drive_letter = got[i].drive_letter
               => got[i].priority <= locations[n].priority
  /\ (/\ lastCall.name = "backup"
      /\ config.prefer_different_drives
      /\ Cardinality(AvailableDrives) >= config.min_backup_copies)
     => /\ Len(Returned.backup_locations) = config.min_backup_copies
        /\ \A i, j \in 1..Len(Returned.backup_locations) :
             i # j => LocationOfId(Returned.backup_locations[i]).drive_letter
                        # LocationOfId(Returned.backup_locations[j]).drive_letter

(* C13 witness: the two best locations share a drive, a third one is *)
(* on another drive, and a backup of two copies has used the first    *)
(* and the third.                                                     *)
C13_Witness ==
  /\ lastCall.name = "backup"
  /\ config.prefer_different_drives
  /\ config.min_backup_copies = 2
  /\ Cardinality(AvailableLocations) = 3
  /\ locations[1].drive_letter = locations[2].drive_letter
  /\ locations[3].drive_letter # locations[1].drive_letter
  /\ Returned.backup_locations = <<locations[1].id, locations[3].id>>
  /\ Len(Returned.entries) = 2 * Len(Returned.source_paths)

(* C14: when a copy raised during backup(), the returned record is   *)
(* Failed with error_message set.                                     *)
C14_CopyFailureRecorded ==
  (lastCall.name = "backup" /\ LastMade.raised)
  => /\ Returned.status = FAILED
     /\ Returned.error_message # None

(* The results verify_entry gives now for the entries of record r    *)
(* that do not verify, in the order of the entries.                   *)
FailedResults(r) ==
  LET NotSuccess(res) == res[2] # SUCCESS
  IN SelectSeq(verify_record(store, r).results, NotSuccess)

(* C15: a record returned by a verifying backup() is Verified, with   *)
(* verified = true and verification_result = SUCCESS, only if every   *)
(* entry verifies; otherwise it is Completed with verified = false    *)
(* and verification_result the result of the first entry that failed; *)
(* and a Verified record always has verified = true.                  *)
C15_VerificationRecorded ==
  /\ (/\ lastCall.name = "backup"
      /\ config.verify_after_backup
      /\ Returned.status # FAILED)
     => IF FailedResults(Returned) = <<>>
        THEN /\ Returned.status = VERIFIED
             /\ Returned.verified
             /\ Returned.verification_result = SUCCESS
        ELSE /\ Returned.status = COMPLETED
             /\ ~Returned.verified
             /\ Returned.verification_result = FailedResults(Returned)[1][2]
  /\ \A id \in DOMAIN records : records[id].status = VERIFIED => records[id].verified

(* The backup files of record id in the files st, and how often the  *)
(* alert callback was called for it.                                  *)
FilesOf(st, id) == {path \in DOMAIN st : path[2] = id}
AlertsFor(al, id) == Cardinality({n \in 1..Len(al) : al[n] = id})

(* C16: check_expiring_backups moves every Completed or Verified      *)
(* record that expires within the alert window to PendingReview,      *)
(* alerts once for each and deletes nothing; a non-forced             *)
(* cleanup_expired leaves a PendingReview record and its files as     *)
(* they are, even after expiry; a forced one, after expiry, sets it   *)
(* to Deleted and removes its directory in every location it used.    *)
C16_TwoPhaseExpiry ==
  [][ /\ lastCall'.name = "check_expiring_backups" =>
          /\ store' = store
          /\ DOMAIN records' = DOMAIN records
          /\ \A id \in DOMAIN records :
               IF /\ records[id].status \in {COMPLETED, VERIFIED}
                  /\ records[id].expires_at <= now + alert_before_delete_days * Day
               THEN /\ records'[id] = [records[id] EXCEPT !.status = PENDING_REVIEW]
                    /\ AlertsFor(alerts', id) = AlertsFor(alerts, id) + 1
               ELSE /\ records'[id] = records[id]
                    /\ AlertsFor(alerts', id) = AlertsFor(alerts, id)
      /\ (lastCall'.name = "cleanup_expired" /\ ~lastCall'.force) =>
          \A id \in DOMAIN records :
            records[id].status = PENDING_REVIEW =>
              /\ records'[id] = records[id]
              /\ FilesOf(store', id) = FilesOf(store, id)
              /\ \A path \in FilesOf(store, id) : store'[path] = store[path]
      /\ (lastCall'.name = "cleanup_expired" /\ lastCall'.force) =>
          \A id \in DOMAIN records :
            (records[id].status = PENDING_REVIEW /\ records[id].expires_at <= now) =>
              /\ records'[id].status = DELETED
              /\ \A path \in FilesOf(store', id) :
                   path[1] \notin Range(records[id].backup_locations)
    ]_vars

(* C16 witness: a record that was reviewed, alerted once and kept its *)
(* two copies has expired and a forced cleanup has just deleted it.   *)
C16_Witness ==
  /\ lastCall.name = "cleanup_expired"
  /\ lastCall.force
  /\ \E id \in lastCall.pending :
       /\ records[id].status = DELETED
       /\ records[id].expires_at <= now
       /\ Len(records[id].backup_locations) = 2
       /\ Len(records[id].entries) = 2
       /\ FilesOf(store, id) = {}
       /\ AlertsFor(alerts, id) = 1

(* C17: a non-forced cleanup_expired deletes a Completed or Verified  *)
(* record only if the record has been in PendingReview before.        *)
C17_ReviewBeforeDeletion ==
  [][ (lastCall'.name = "cleanup_expired" /\ ~lastCall'.force) =>
        \A id \in DOMAIN records :
          (records[id].status \in {COMPLETED, VERIFIED} /\ records'[id].status = DELETED)
            => id \in reviewed
    ]_vars

(* A record restore accepts whose backup files are all there and     *)
(* readable.                                                          *)
Restorable(id) ==
  /\ id \in DOMAIN records
  /\ records[id].status \in {COMPLETED, VERIFIED}
  /\ \A n \in 1..Len(records[id].entries) :
       LET entry == records[id].entries[n] IN
       /\ StoreExists(store, entry.backup_path)
       /\ entry.is_compressed => IsGzip(store[entry.backup_path])

(* The source paths of record id have pairwise different file names. *)
DistinctNames(id) ==
  \A i, j \in 1..Len(records[id].source_paths) :
    i # j => Name(records[id].source_paths[i]) # Name(records[id].source_paths[j])

(* C18: restore without overwrite of such a record (of files with    *)
(* different names) returns false if and only if some destination    *)
(* path held a file before the call.                                  *)
C18_FailsOnlyOnExisting ==
  [][ (/\ lastCall'.name = "restore"
       /\ ~lastCall'.overwrite
       /\ Restorable(lastCall'.id)
       /\ DistinctNames(lastCall'.id))
      => (lastCall'.ret = "False"
            <=> \E n \in 1..Len(records[lastCall'.id].entries) :
                  DestExists([fs |-> fs, target |-> target],
                             records[lastCall'.id].entries[n], lastCall'.target_path))
    ]_vars

(* What the backup() call that stored record id found and met. *)
MadeOf(id) == made[CHOOSE n \in 1..Len(made) :
                     made[n].id = id /\ \A m \in (n + 1)..Len(made) : made[m].id # id]

(* A record of one copy of two regular files with different names,    *)
(* made by a backup() in which nothing raised.                        *)
TwoFilesOneCopy(id) ==
  /\ id \in DOMAIN records
  /\ config.min_backup_copies = 1
  /\ Len(records[id].source_paths) = 2
  /\ DistinctNames(id)
  /\ \A n \in 1..2 : MadeOf(id).contents[n] \in Contents
  /\ ~MadeOf(id).raised
  /\ MadeOf(id).verify = "ok"

(* C19: such a record is Completed or Verified, and restore of it     *)
(* into an empty target directory returns true and leaves both files  *)
(* there with the content the sources had, with and without           *)
(* compression.                                                       *)
C19_RoundTrip ==
  [][ (/\ lastCall'.name = "restore"
       /\ lastCall'.target_path = TargetDir
       /\ \A n \in Names : target[n] = NoFile
       /\ TwoFilesOneCopy(lastCall'.id))
      => LET r == records[lastCall'.id] IN
         /\ r.status \in {COMPLETED, VERIFIED}
         /\ lastCall'.ret = "True"
         /\ \A n \in 1..2 :
              /\ target'[Name(r.source_paths[n])] = MadeOf(r.id).contents[n]
              /\ Sha256(target'[Name(r.source_paths[n])]) = Sha256(MadeOf(r.id).contents[n])
    ]_vars

(* C19 witness: two files of different content, backed up compressed  *)
(* in one copy, have been restored into the target directory.         *)
C19_Witness ==
  /\ lastCall.name = "restore"
  /\ lastCall.ret = "True"
  /\ lastCall.target_path = TargetDir
  /\ TwoFilesOneCopy(lastCall.id)
  /\ config.compress_backups
  /\ Len(records[lastCall.id].entries) = 2
  /\ \A n \in 1..2 : records[lastCall.id].entries[n].is_compressed
  /\ target["a.txt"] = "c1"
  /\ target["b.txt"] = "c2"

RECURSIVE SumSizes(_)
SumSizes(sizes) == IF sizes = <<>> THEN 0 ELSE Head(sizes) + SumSizes(Tail(sizes))

OriginalSizes == [n \in 1..Len(LastMade.contents) |-> FileSize(LastMade.contents[n])]
BackupSizes(r) == [n \in 1..Len(r.entries) |-> r.entries[n].backup_size]

(* A backup() of one copy of regular files in which nothing raised    *)
(* has just returned.                                                 *)
OneCopyReturned ==
  /\ lastCall.name = "backup"
  /\ config.min_backup_copies = 1
  /\ \A n \in 1..Len(LastMade.contents) : LastMade.contents[n] \in Contents
  /\ ~LastMade.raised
  /\ LastMade.verify = "ok"

(* C20 as claimed: the total_size of the record is the sum of the     *)
(* original sizes of the source files, compressed or not.             *)
C20_Original ==
  OneCopyReturned => Returned.total_size = SumSizes(OriginalSizes)

(* C20: the total_size of a returned record is the sum of the         *)
(* backup_size of its entries, the sizes of the backup files written; *)
(* for one copy without compression that is the sum of the original   *)
(* sizes of the source files.                                         *)
C20_TotalBackupSize ==
  /\ lastCall.name = "backup" => Returned.total_size = SumSizes(BackupSizes(Returned))
  /\ (OneCopyReturned /\ ~config.compress_backups)
       => Returned.total_size = SumSizes(OriginalSizes)

(* C20 witness: two files of 100 and 200 bytes backed up compressed   *)
(* in one copy; total_size is the size of the two gzip files.         *)
C20_Witness ==
  /\ OneCopyReturned
  /\ config.compress_backups
  /\ Returned.source_paths = <<"d1/a.txt", "d1/b.txt">>
  /\ SumSizes(OriginalSizes) = 300
  /\ Len(Returned.entries) = 2
  /\ Returned.total_size = StSize(Gzip("c1")) + StSize(Gzip("c2"))
  /\ Returned.total_size # 300

(* The order of the statuses a stored record goes through. *)
Rank(status) ==
  CASE status = IN_PROGRESS -> 0
    [] status = COMPLETED -> 1
    [] status = VERIFIED -> 2
    [] status = PENDING_REVIEW -> 3
    [] status = FAILED -> 4
    [] status = DELETED -> 5

(* C21: the status of a record that stays stored under its id (no     *)
(* backup() has just stored a record under that id) stays as it is or *)
(* moves forward in the order InProgress, Completed, Verified,        *)
(* PendingReview, Failed, Deleted; the one step back is that of       *)
(* extend_retention, from PendingReview to Verified when the record   *)
(* is verified and to Completed when it is not; a Deleted record      *)
(* keeps its status.                                                  *)
C21_StatusMonotonic ==
  [][ /\ DOMAIN records \subseteq DOMAIN records'
      /\ \A id \in DOMAIN records :
           ~(lastCall'.name = "backup" /\ lastCall'.id = id) =>
             \/ records'[id].status = records[id].status
             \/ /\ records[id].status # DELETED
                /\ Rank(records[id].status) < Rank(records'[id].status)
             \/ /\ lastCall'.name = "extend_retention"
                /\ lastCall'.id = id
                /\ records[id].status = PENDING_REVIEW
                /\ records'[id].status = IF records[id].verified THEN VERIFIED ELSE COMPLETED
    ]_vars

(* C21 witness: extend_retention has just put a record that was in    *)
(* PendingReview back to Verified or Completed, while another record  *)
(* is Deleted.                                                        *)
C21_Witness ==
  /\ lastCall.name = "extend_retention"
  /\ lastCall.ret = "True"
  /\ lastCall.id \in reviewed
  /\ records[lastCall.id].status = IF records[lastCall.id].verified THEN VERIFIED ELSE COMPLETED
  /\ \E id \in DOMAIN records : records[id].status = DELETED

(* C24: every backup() call stores its record under an id that no     *)
(* earlier record has: after n calls, records holds n records.        *)
C24_IdsUnique == Cardinality(DOMAIN records) = Len(made)

(* C25: a record that backup() returns as Completed or Verified has,  *)
(* for every path of source_paths, at least one entry.                *)
C25_EveryPathBackedUp ==
  lastCall.name = "backup" =>
    (Returned.status \in {COMPLETED, VERIFIED} =>
       \A n \in 1..Len(Returned.source_paths) :
         EntriesFor(Returned, Returned.source_paths[n]) # {})

(* C26: after a backup() in which nothing raised, the entries of the  *)
(* record for different source files in one location have different   *)
(* backup paths, and the backup file of every entry is there with    *)
(* the hash the entry records as hash_backup.                         *)
C26_DistinctBackupPaths ==
  (lastCall.name = "backup" /\ ~LastMade.raised /\ LastMade.verify = "ok") =>
    /\ \A m, n \in 1..Len(Returned.entries) :
         Returned.entries[m].source_path # Returned.entries[n].source_path =>
           Returned.entries[m].backup_path # Returned.entries[n].backup_path
    /\ \A n \in 1..Len(Returned.entries) :
         /\ StoreExists(store, Returned.entries[n].backup_path)
         /\ Sha256(store[Returned.entries[n].backup_path]) = Returned.entries[n].hash_backup

(* C27: a restore that returns False has created or overwritten no    *)
(* destination file; stated for the unknown record and for records    *)
(* of files with different names.                                     *)
C27_RestoreAllOrNothing ==
  [][ (/\ lastCall'.name = "restore"
       /\ lastCall'.ret = "False"
       /\ lastCall'.id \in DOMAIN records => DistinctNames(lastCall'.id))
      => (fs' = fs /\ target' = target)
    ]_vars

(* C29: cleanup_expired returns the number of records that it moved   *)
(* to Deleted in that call.                                           *)
C29_CountsNewlyDeleted ==
  [][ lastCall'.name = "cleanup_expired" =>
        lastCall'.cleaned =
          Cardinality({id \in DOMAIN records :
                         records[id].status # DELETED /\ records'[id].status = DELETED})
    ]_vars

(* C28: every restore point list_restore_points returns names a       *)
(* record that is in records and is neither Failed nor Deleted.       *)
C28_ValidPointsRestorable ==
  \A n \in 1..Len(list_restore_points) :
    /\ list_restore_points[n].backup_record_id \in DOMAIN records
    /\ records[list_restore_points[n].backup_record_id].status \notin {FAILED, DELETED}

(* C22: a thread that is changing the records map or is inside        *)
(* _save_state holds the manager's lock, so at most one thread is     *)
(* there at a time.                                                   *)
C22_MutationsUnderLock ==
  /\ \A t \in Threads : threads[t].at \in {"mutate", "save", "dump"} => lock = t
  /\ Cardinality({t \in Threads : threads[t].at \in {"mutate", "save", "dump"}}) <= 1

(* C23: the state file is at every instant a complete document (or    *)
(* has never been written): no state shows it cut off.                *)
C23_StateFileAtomic == state_file.doc \in {"none", "json"}

(* C30: every RolledBack entry of a transaction in the log comes      *)
(* right after a Completed entry of it: one completion is rolled back *)
(* by at most one rollback call, whatever the threads do.             *)
C30_OneRollback ==
  \A id \in Ids :
    \A n \in 1..Len(StatusesOf(id)) :
      StatusesOf(id)[n] = ROLLED_BACK => (n > 1 /\ StatusesOf(id)[n - 1] = COMPLETED)

====
